---- MODULE Spec2Model ----
(***************************************************************************)
(* XRPL -> ISO 20022 middleware: the Mapper (MappingEngine.js), the        *)
(* Serializer (XMLGenerator.js) and the Validator (ValidationService.js).  *)
(*                                                                         *)
(* A JavaScript string is a sequence of one-character strings, so that     *)
(* replace, slice, length and the regular expressions are computed the way *)
(* the code computes them.  A JavaScript number is an IEEE-754 double; the *)
(* drops conversion is computed on decimal digit sequences (most           *)
(* significant digit first, zero = <<>>) with the 53-bit rounding made     *)
(* explicit, because TLC's own integers are 32 bits wide.                  *)
(***************************************************************************)
EXTENDS Integers, Sequences, FiniteSets, TLC

VARIABLES pc, tx, messageType, mapped, mapped2, xml, result, db, response,
          env, service, calls, apiKeys, req, rateLimit, clock, log, second, scan, issued

\* the state of the application around one request: the environment of the
\* process, the service instances built at start-up and the validateXML
\* calls in progress on the validation service
\* the guards in front of the route handlers: the key store of the
\* ApiController, the request at the guards, the table of the rate limiter
\* (client IP -> count and resetTime), the clock, and per client IP and
\* instant how many requests the rate limiter passed on and how many it
\* answered itself
gateway == <<apiKeys, req, rateLimit, clock, log>>

\* what runs beside the request: a second call of processXRPLTransaction
\* and the scan of the scheduler; and how many keys generateApiKey has made
background == <<second, scan, issued>>

appState == <<env, service, calls, gateway, background>>

vars == <<pc, tx, messageType, mapped, mapped2, xml, result, db, response, appState>>

-----------------------------------------------------------------------------
(* Characters                                                              *)

Digits == {"0", "1", "2", "3", "4", "5", "6", "7", "8", "9"}

UpperCase == {"A", "B", "C", "D", "E", "F", "G", "H", "I", "J", "K", "L", "M",
              "N", "O", "P", "Q", "R", "S", "T", "U", "V", "W", "X", "Y", "Z"}

LowerCase == {"a", "b", "c", "d", "e", "f", "g", "h", "i", "j", "k", "l", "m",
              "n", "o", "p", "q", "r", "s", "t", "u", "v", "w", "x", "y", "z"}

HexChars == <<"0", "1", "2", "3", "4", "5", "6", "7", "8", "9",
              "a", "b", "c", "d", "e", "f">>

DigitVal(c) == CHOOSE v \in 0..9 : HexChars[v + 1] = c

DigitChar(v) == HexChars[v + 1]

Min(a, b) == IF a < b THEN a ELSE b

Zeros(n) == [i \in 1..n |-> 0]

-----------------------------------------------------------------------------
(* Decimal arithmetic on digit sequences, for the double arithmetic of     *)
(* (parseInt(amount) / 1000000).toString().  Carries run over limbs of     *)
(* four digits.                                                            *)

SetMin(S) == CHOOSE x \in S : \A y \in S : x <= y

SetMax(S) == CHOOSE x \in S : \A y \in S : x >= y

BigNorm(a) ==
    LET nz == {i \in 1..Len(a) : a[i] # 0}
    IN  IF nz = {} THEN <<>> ELSE SubSeq(a, SetMin(nz), Len(a))

\* -1, 0, 1 as a < b, a = b, a > b; both without leading zeros
BigCmp(a, b) ==
    IF Len(a) # Len(b) THEN (IF Len(a) < Len(b) THEN -1 ELSE 1)
    ELSE LET df == {i \in 1..Len(a) : a[i] # b[i]}
         IN  IF df = {} THEN 0
             ELSE IF a[SetMin(df)] < b[SetMin(df)] THEN -1 ELSE 1

\* the digits as n limbs of four digits
ToLimbs(a, n) ==
    LET p == Zeros(4 * n - Len(a)) \o a
    IN  [j \in 1..n |-> 1000 * p[4 * j - 3] + 100 * p[4 * j - 2]
                        + 10 * p[4 * j - 1] + p[4 * j]]

FromLimbs(ls) ==
    BigNorm([i \in 1..4 * Len(ls) |->
                (ls[(i + 3) \div 4] \div <<1000, 100, 10, 1>>[((i - 1) % 4) + 1]) % 10])

LimbCount(a) == (Len(a) + 3) \div 4

\* limbs i.. of a + b + carry: the carry out and the limbs
RECURSIVE LimbAdd(_, _, _)
LimbAdd(a, b, i) ==
    IF i > Len(a) THEN [c |-> 0, l |-> <<>>]
    ELSE LET r == LimbAdd(a, b, i + 1)
             s == a[i] + b[i] + r.c
         IN  [c |-> s \div 10000, l |-> <<s % 10000>> \o r.l]

BigAdd(a, b) ==
    LET n == (IF Len(a) > Len(b) THEN LimbCount(a) ELSE LimbCount(b)) + 1
    IN  FromLimbs(LimbAdd(ToLimbs(a, n), ToLimbs(b, n), 1).l)

RECURSIVE LimbSub(_, _, _)
LimbSub(a, b, i) ==
    IF i > Len(a) THEN [c |-> 0, l |-> <<>>]
    ELSE LET r == LimbSub(a, b, i + 1)
             s == a[i] - b[i] - r.c
         IN  IF s < 0 THEN [c |-> 1, l |-> <<s + 10000>> \o r.l]
                      ELSE [c |-> 0, l |-> <<s>> \o r.l]

\* a - b for a >= b
BigSub(a, b) ==
    LET n == LimbCount(a)
    IN  FromLimbs(LimbSub(ToLimbs(a, n), ToLimbs(b, n), 1).l)

RECURSIVE LimbMul(_, _, _)
LimbMul(a, n, i) ==
    IF i > Len(a) THEN [c |-> 0, l |-> <<>>]
    ELSE LET r == LimbMul(a, n, i + 1)
             s == a[i] * n + r.c
         IN  [c |-> s \div 10000, l |-> <<s % 10000>> \o r.l]

\* a * n for 0 <= n <= 100000 (a limb times n stays below 2^31)
BigMulSmall(a, n) ==
    LET k == LimbCount(a) + 2
    IN  FromLimbs(LimbMul(ToLimbs(a, k), n, 1).l)

RECURSIVE BigModAt(_, _, _)
BigModAt(a, u, i) ==
    IF i = 0 THEN 0 ELSE (BigModAt(a, u, i - 1) * 10 + a[i]) % u

\* a mod u for a small u
BigModSmall(a, u) == BigModAt(a, u, Len(a))

\* a * 5^k
RECURSIVE MulPow5(_, _)
MulPow5(a, k) ==
    IF a = <<>> THEN a
    ELSE IF k >= 6 THEN MulPow5(BigMulSmall(a, 15625), k - 6)
    ELSE IF k > 0 THEN MulPow5(BigMulSmall(a, 5), k - 1)
    ELSE a

TwoTo52 == <<4, 5, 0, 3, 5, 9, 9, 6, 2, 7, 3, 7, 0, 4, 9, 6>>

TwoTo53 == BigMulSmall(TwoTo52, 2)

-----------------------------------------------------------------------------
(* IEEE-754 double arithmetic of MappingEngine.extractAmount               *)

RECURSIVE IntDigits(_)
IntDigits(n) == IF n = 0 THEN <<>> ELSE IntDigits(n \div 10) \o <<n % 10>>

RECURSIVE SmallVal(_)
SmallVal(ds) ==
    IF ds = <<>> THEN 0 ELSE 10 * SmallVal(SubSeq(ds, 1, Len(ds) - 1)) + ds[Len(ds)]

\* the spacing of the doubles around the integer d > 2^53
RECURSIVE UlpOf(_, _, _)
UlpOf(d, bound, u) ==
    IF BigCmp(d, bound) < 0 THEN u ELSE UlpOf(d, BigMulSmall(bound, 2), 2 * u)

\* parseInt's result as a double: the integer d rounded to 53 significant
\* bits, to nearest, ties to the even significand
ToDouble(d) ==
    IF BigCmp(d, TwoTo53) <= 0 THEN d
    ELSE LET u     == UlpOf(d, BigMulSmall(TwoTo53, 2), 2)
             r     == BigModSmall(d, u)
             lower == BigSub(d, IntDigits(r))
             upper == BigAdd(lower, IntDigits(u))
         IN  IF 2 * r < u THEN lower
             ELSE IF 2 * r > u THEN upper
             ELSE IF BigModSmall(lower, 2 * u) = 0 THEN lower ELSE upper

\* x * 2^k brought into [2^52 * 10^6, 2^53 * 10^6)
RECURSIVE ScaleUp(_, _)
ScaleUp(y, k) ==
    IF BigCmp(y, TwoTo52 \o Zeros(6)) >= 0 THEN [y |-> y, k |-> k]
    ELSE IF k < 0 \/ BigCmp(BigMulSmall(y, 65536), TwoTo53 \o Zeros(6)) < 0
         THEN ScaleUp(BigMulSmall(y, 65536), k + 16)
         ELSE ScaleUp(BigMulSmall(y, 2), k + 1)

\* the double x / 1000000 for an integer double 0 < x < 2^52 * 10^6, as
\* [m, k] standing for m / 2^k with 2^52 <= m < 2^53: the quotient rounded
\* to nearest, ties to even
DivideByMillion(x) ==
    LET s   == ScaleUp(x, 0)
        m0  == SubSeq(s.y, 1, Len(s.y) - 6)
        rem == SmallVal(SubSeq(s.y, Len(s.y) - 5, Len(s.y)))
        up  == rem > 500000 \/ (rem = 500000 /\ m0[Len(m0)] % 2 = 1)
        m1  == IF up THEN BigAdd(m0, <<1>>) ELSE m0
    IN  IF m1 = TwoTo53 THEN [m |-> TwoTo52, k |-> s.k - 1]
                        ELSE [m |-> m1, k |-> s.k]

\* Number::toString step 5: the decimal with the fewest significant digits
\* whose Number value is the double; among those the closest to it.
\* Q is the double scaled to an integer, (lo, hi) its rounding interval.
RECURSIVE Shortest(_, _, _, _, _)
Shortest(Q, lo, hi, closed, n) ==
    IF n >= Len(Q) THEN Q
    ELSE LET pad   == Zeros(Len(Q) - n)
             T     == SubSeq(Q, 1, n)
             down  == T \o pad
             up    == BigAdd(T, <<1>>) \o pad
             In(V) == IF closed THEN BigCmp(lo, V) <= 0 /\ BigCmp(V, hi) <= 0
                                ELSE BigCmp(lo, V) < 0 /\ BigCmp(V, hi) < 0
             c     == BigCmp(BigSub(Q, down), BigSub(up, Q))
         IN  IF In(down) /\ In(up)
             THEN (IF c < 0 THEN down
                   ELSE IF c > 0 THEN up
                   ELSE IF T[n] % 2 = 0 THEN down ELSE up)
             ELSE IF In(down) THEN down
             ELSE IF In(up) THEN up
             ELSE Shortest(Q, lo, hi, closed, n + 1)

DigitString(ds) == [i \in 1..Len(ds) |-> DigitChar(ds[i])]

\* the decimal V / 10^S written the way Number::toString writes a value in
\* [10^-6, 10^21): no exponent, no trailing zeros after the point
FormatDecimal(V, S) ==
    LET last == SetMax({i \in 1..Len(V) : V[i] # 0})
        cut  == Min(Len(V) - last, S)
        v    == SubSeq(V, 1, Len(V) - cut)
        s    == S - cut
        n    == Len(v)
    IN  IF s = 0 THEN DigitString(v)
        ELSE IF n > s
             THEN DigitString(SubSeq(v, 1, n - s)) \o <<".">>
                  \o DigitString(SubSeq(v, n - s + 1, n))
             ELSE <<"0", ".">> \o DigitString(Zeros(s - n) \o v)

\* (m / 2^k).toString() for 2^52 <= m < 2^53, k >= 0
NumberToString(q) ==
    LET Q      == MulPow5(q.m, q.k) \o <<0, 0>>
        hhi    == MulPow5(<<1>>, q.k + 1) \o <<0>>
        hlo    == IF q.m = TwoTo52 THEN MulPow5(<<1>>, q.k + 2) ELSE hhi
        closed == q.m[Len(q.m)] % 2 = 0
    IN  FormatDecimal(Shortest(Q, BigSub(Q, hlo), BigAdd(Q, hhi), closed, 1), q.k + 2)

\* (d / 1000000).toString() for the integer d given by its digits
DropsToString(d) ==
    IF d = <<>> THEN <<"0">> ELSE NumberToString(DivideByMillion(ToDouble(d)))

-----------------------------------------------------------------------------
(* JavaScript values used by the Mapper                                    *)

\* a string-valued property that may be undefined
Some(s) == [def |-> TRUE, s |-> s]

Undefined == [def |-> FALSE, s |-> <<>>]

Truthy(v) == v.def /\ v.s # <<>>

\* `${v}` in a template string
TemplateString(v) == IF v.def THEN v.s ELSE <<"u", "n", "d", "e", "f", "i", "n", "e", "d">>

\* String.prototype.replace(/c/g, '')
RemoveAll(s, c) == SelectSeq(s, LAMBDA x : x # c)

\* String.prototype.slice(0, n)
Slice(s, n) == SubSeq(s, 1, Min(Len(s), n))

\* parseInt of a string that starts with neither white space, a sign nor
\* "0x": the longest prefix of decimal digits, NaN when there is none
parseInt(s) ==
    LET nd == {i \in 1..Len(s) : s[i] \notin Digits}
        p  == IF nd = {} THEN s ELSE SubSeq(s, 1, SetMin(nd) - 1)
    IN  IF p = <<>> THEN [nan |-> TRUE, d |-> <<>>]
        ELSE [nan |-> FALSE, d |-> BigNorm([i \in 1..Len(p) |-> DigitVal(p[i])])]

HexVal(c) ==
    IF c \in Digits THEN DigitVal(c)
    ELSE CHOOSE v \in 10..15 :
            c = <<"a", "b", "c", "d", "e", "f">>[v - 9]
            \/ c = <<"A", "B", "C", "D", "E", "F">>[v - 9]

IsHexChar(c) ==
    c \in Digits \cup {"a", "b", "c", "d", "e", "f", "A", "B", "C", "D", "E", "F"}

\* Buffer.from(s, 'hex'): the bytes of the leading pairs of hex digits; it
\* stops at the first pair that is not hex and drops an odd last character
BufferFromHex(s) ==
    LET pairs == Len(s) \div 2
        bad   == {i \in 1..pairs : ~IsHexChar(s[2 * i - 1]) \/ ~IsHexChar(s[2 * i])}
        n     == IF bad = {} THEN pairs ELSE SetMin(bad) - 1
    IN  [i \in 1..n |-> 16 * HexVal(s[2 * i - 1]) + HexVal(s[2 * i])]

Ascii == <<" ", "!", "U+34", "#", "$", "%", "&", "'", "(", ")", "*", "+", ",", "-",
           ".", "/", "0", "1", "2", "3", "4", "5", "6", "7", "8", "9", ":", ";",
           "<", "=", ">", "?", "@", "A", "B", "C", "D", "E", "F", "G", "H", "I",
           "J", "K", "L", "M", "N", "O", "P", "Q", "R", "S", "T", "U", "V", "W",
           "X", "Y", "Z", "[", "U+92", "]", "^", "_", "U+96", "a", "b", "c", "d", "e",
           "f", "g", "h", "i", "j", "k", "l", "m", "n", "o", "p", "q", "r", "s",
           "t", "u", "v", "w", "x", "y", "z", "{", "|", "}", "~">>

\* the character with code point cp; outside printable ASCII, and for the
\* quote, the backslash and the backquote, it is named by its code point
CharOf(cp) == IF cp \in 32..126 THEN Ascii[cp - 31] ELSE "U+" \o ToString(cp)

IsCont(bytes, i, lo, hi) == i <= Len(bytes) /\ bytes[i] >= lo /\ bytes[i] <= hi

\* Buffer.prototype.toString('utf8') from byte i on: the code points, with
\* U+FFFD (65533) for every maximal ill-formed subsequence
RECURSIVE Utf8Decode(_, _)
Utf8Decode(bytes, i) ==
    IF i > Len(bytes) THEN <<>>
    ELSE LET b  == bytes[i]
             lo == IF b = 224 THEN 160 ELSE IF b = 240 THEN 144 ELSE 128
             hi == IF b = 237 THEN 159 ELSE IF b = 244 THEN 143 ELSE 191
             c(j) == bytes[i + j] % 64
         IN  IF b < 128 THEN <<b>> \o Utf8Decode(bytes, i + 1)
             ELSE IF b < 194 \/ b > 244 \/ ~IsCont(bytes, i + 1, lo, hi)
                  THEN <<65533>> \o Utf8Decode(bytes, i + 1)
             ELSE IF b < 224
                  THEN <<(b % 32) * 64 + c(1)>> \o Utf8Decode(bytes, i + 2)
             ELSE IF ~IsCont(bytes, i + 2, 128, 191)
                  THEN <<65533>> \o Utf8Decode(bytes, i + 2)
             ELSE IF b < 240
                  THEN <<(b % 16) * 4096 + c(1) * 64 + c(2)>>
                       \o Utf8Decode(bytes, i + 3)
             ELSE IF ~IsCont(bytes, i + 3, 128, 191)
                  THEN <<65533>> \o Utf8Decode(bytes, i + 3)
             ELSE <<(b % 8) * 262144 + c(1) * 4096 + c(2) * 64 + c(3)>>
                  \o Utf8Decode(bytes, i + 4)

BufferToString(bytes) ==
    LET cps == Utf8Decode(bytes, 1) IN [i \in 1..Len(cps) |-> CharOf(cps[i])]

-----------------------------------------------------------------------------
(* MappingEngine.js                                                        *)

MaxIdLength == 35

\* generateMsgId without the slice(0, 35)
generateMsgIdUncut(source, uuid) ==
    LET raw == IF Truthy(source) THEN source.s ELSE uuid
    IN  RemoveAll(raw, "-")

generateMsgId(source, uuid) ==
    LET raw == IF Truthy(source) THEN source.s ELSE uuid
    IN  Slice(RemoveAll(raw, "-"), MaxIdLength)

\* An Amount is undefined, a string, or an object whose currency, value and
\* issuer are strings (<<>> stands for a missing or empty property: the
\* code only tests them for truthiness or equality).
AmountUndefined == [type |-> "undefined", s |-> <<>>, currency |-> <<>>,
                    value |-> <<>>, issuer |-> <<>>]

AmountString(s) == [type |-> "string", s |-> s, currency |-> <<>>,
                    value |-> <<>>, issuer |-> <<>>]

AmountObject(c, v, i) == [type |-> "object", s |-> <<>>, currency |-> c,
                          value |-> v, issuer |-> i]

extractAmount(amount) ==
    IF amount.type = "string"
    THEN LET n == parseInt(amount.s)
         IN  IF n.nan THEN <<"N", "a", "N">> ELSE DropsToString(n.d)
    ELSE IF amount.type = "object" /\ amount.value # <<>> THEN amount.value
    ELSE <<"0">>

\* xrplTransaction.Amount.currency || 'HCT'
currencyOrHCT(amount) ==
    IF amount.currency # <<>> THEN amount.currency ELSE <<"H", "C", "T">>

extractAccountName(account) ==
    <<"A", "c", "c", "o", "u", "n", "t", "_">> \o Slice(account, 8)

extractAccountAddress(account) ==
    [addressType |-> "ADDR", department |-> "XRPL", streetName |-> account,
     buildingNumber |-> "1", postCode |-> "00000", townName |-> "Digital",
     country |-> "XX"]

\* a property that is null or undefined where the code expects an object
Null == [null |-> TRUE]

\* an entry of transaction.Memos: { Memo: { MemoData } }, or an entry
\* without the Memo property
MemoEntry(data) == [Memo |-> [MemoData |-> data]]

NoMemoEntry == [Memo |-> Null]

\* null when there is no memo or the first memo has no MemoData; reading
\* MemoData of an entry without Memo is a TypeError
extractMemoThrows(transaction) ==
    Len(transaction.Memos) > 0 /\ transaction.Memos[1].Memo = Null

\* extractMemo reading the last memo instead of the first
extractMemoLast(transaction) ==
    LET n == Len(transaction.Memos)
    IN  IF n > 0 /\ transaction.Memos[n].Memo.MemoData # <<>>
        THEN Some(BufferToString(BufferFromHex(transaction.Memos[n].Memo.MemoData)))
        ELSE Undefined

extractMemo(transaction) ==
    IF Len(transaction.Memos) > 0 /\ transaction.Memos[1].Memo.MemoData # <<>>
    THEN Some(BufferToString(BufferFromHex(transaction.Memos[1].Memo.MemoData)))
    ELSE Undefined

extractRemittanceInfo(transaction) ==
    LET memo == extractMemo(transaction)
    IN  [unstructured |->
            IF Truthy(memo) THEN memo.s
            ELSE <<"H", "C", "T", " ", "T", "r", "a", "n", "s", "f", "e", "r", " ",
                   "-", " ">> \o TemplateString(transaction.hash)]

\* the record the call returns, or the error it throws (reading a property
\* of an undefined Amount, Account, Destination or Memo); uuids are the
\* values the three uuidv4() calls return, now is new Date().toISOString()
mapXRPLToISO20022(t, uuids, now) ==
    IF \/ t.Amount.type = "undefined"
       \/ ~t.Account.def
       \/ ~t.Destination.def
       \/ extractMemoThrows(t)
    THEN [status |-> "throws", error |-> "TypeError"]
    ELSE [status |-> "returns",
          data |->
            [messageId |-> Slice(RemoveAll(uuids[1], "-"), MaxIdLength),
             creationDateTime |-> now,
             numberOfTransactions |-> <<"1">>,
             controlSum |-> extractAmount(t.Amount),
             instructionId |-> generateMsgId(t.hash, uuids[2]),
             endToEndId |-> generateMsgId(t.hash, uuids[3]),
             transactionId |-> t.hash,
             instructedAmount |-> [currency |-> currencyOrHCT(t.Amount),
                                   value |-> extractAmount(t.Amount)],
             debtor |-> [name |-> extractAccountName(t.Account.s),
                         identification |-> t.Account.s,
                         address |-> extractAccountAddress(t.Account.s)],
             debtorAccount |-> [identification |-> t.Account.s,
                                currency |-> currencyOrHCT(t.Amount)],
             creditor |-> [name |-> extractAccountName(t.Destination.s),
                           identification |-> t.Destination.s,
                           address |-> extractAccountAddress(t.Destination.s)],
             creditorAccount |-> [identification |-> t.Destination.s,
                                  currency |-> currencyOrHCT(t.Amount)],
             remittanceInformation |-> extractRemittanceInfo(t),
             chargeBearer |-> <<"S", "L", "E", "V">>,
             purposeCode |-> <<"C", "B", "F", "F">>]]

-----------------------------------------------------------------------------
(* XMLGenerator.js.  An XML document string is modelled by what the two    *)
(* parsers make of it: whether it is well-formed, and its element tree.    *)
(* An element is a tag, attributes (name, value), its text and children.   *)

El(tag, attrs, text, kids) == [tag |-> tag, attrs |-> attrs, text |-> text, kids |-> kids]

Leaf(tag, text) == El(tag, <<>>, text, <<>>)

Branch(tag, kids) == El(tag, <<>>, <<>>, kids)

\* .txt(v): an undefined value adds no text node
Txt(v) == IF v.def THEN v.s ELSE <<>>

\* Id / Othr / Id with the given text, under the wrappers given outermost
\* first
RECURSIVE Nested(_, _)
Nested(tags, text) ==
    IF Len(tags) = 1 THEN Leaf(tags[1], text)
    ELSE Branch(tags[1], <<Nested(Tail(tags), text)>>)

OnlyIf(cond, kids) == IF cond THEN kids ELSE <<>>

generatePacs008XML(mappedData) ==
    [kind |-> "document",
     root |->
       El("Document",
          <<<<"xmlns", "urn:iso:std:iso:20022:tech:xsd:pacs.008.001.08">>,
            <<"xmlns:xsi", "http://www.w3.org/2001/XMLSchema-instance">>>>,
          <<>>,
          <<Branch("FIToFICstmrCdtTrf",
             <<Branch("GrpHdr",
                 <<Leaf("MsgId", mappedData.messageId),
                   Leaf("CreDtTm", mappedData.creationDateTime),
                   Leaf("NbOfTxs", mappedData.numberOfTransactions),
                   Leaf("CtrlSum", mappedData.controlSum),
                   Nested(<<"InstgAgt", "FinInstnId", "Othr", "Id">>,
                          <<"H", "C", "T", "M", "I", "D", "D", "L", "E", "W", "A", "R", "E">>),
                   Nested(<<"InstdAgt", "FinInstnId", "Othr", "Id">>,
                          <<"X", "R", "P", "L", "E", "D", "G", "E", "R">>)>>),
               Branch("CdtTrfTxInf",
                 <<Branch("PmtId",
                     <<Leaf("InstrId", mappedData.instructionId),
                       Leaf("EndToEndId", mappedData.endToEndId),
                       Leaf("TxId", Txt(mappedData.transactionId))>>),
                   El("IntrBkSttlmAmt",
                      <<<<"Ccy", mappedData.instructedAmount.currency>>>>,
                      mappedData.instructedAmount.value, <<>>),
                   Leaf("ChrgBr", mappedData.chargeBearer),
                   Branch("Dbtr",
                     <<Leaf("Nm", mappedData.debtor.name),
                       Nested(<<"Id", "OrgId", "Othr", "Id">>,
                              mappedData.debtor.identification)>>),
                   Branch("DbtrAcct",
                     <<Nested(<<"Id", "Othr", "Id">>,
                              mappedData.debtorAccount.identification)>>),
                   Branch("Cdtr",
                     <<Leaf("Nm", mappedData.creditor.name),
                       Nested(<<"Id", "OrgId", "Othr", "Id">>,
                              mappedData.creditor.identification)>>),
                   Branch("CdtrAcct",
                     <<Nested(<<"Id", "Othr", "Id">>,
                              mappedData.creditorAccount.identification)>>)>>
                 \o OnlyIf(mappedData.remittanceInformation # Null,
                      <<Nested(<<"RmtInf", "Ustrd">>,
                               mappedData.remittanceInformation.unstructured)>>)
                 \o OnlyIf(mappedData.purposeCode # <<>>,
                      <<Nested(<<"Purp", "Cd">>, mappedData.purposeCode)>>))>>)>>)]

generatePain001XML(mappedData) ==
    [kind |-> "document",
     root |->
       El("Document",
          <<<<"xmlns", "urn:iso:std:iso:20022:tech:xsd:pain.001.001.09">>,
            <<"xmlns:xsi", "http://www.w3.org/2001/XMLSchema-instance">>>>,
          <<>>,
          <<Branch("CstmrCdtTrfInitn",
             <<Branch("GrpHdr",
                 <<Leaf("MsgId", mappedData.messageId),
                   Leaf("CreDtTm", mappedData.creationDateTime),
                   Leaf("NbOfTxs", mappedData.numberOfTransactions),
                   Leaf("CtrlSum", mappedData.controlSum),
                   Branch("InitgPty",
                     <<Leaf("Nm", <<"H", "o", "o", "d", "i", "e", " ", "C", "h", "i", "c",
                                    "k", "e", "n", " ", "M", "i", "d", "d", "l", "e",
                                    "w", "a", "r", "e">>),
                       Nested(<<"Id", "OrgId", "Othr", "Id">>,
                              <<"H", "C", "T", "_", "M", "I", "D", "D", "L", "E", "W", "A",
                                "R", "E">>)>>)>>),
               Branch("PmtInf",
                 <<Leaf("PmtInfId", mappedData.messageId),
                   Leaf("PmtMtd", <<"T", "R", "F">>),
                   Leaf("NbOfTxs", mappedData.numberOfTransactions),
                   Leaf("CtrlSum", mappedData.controlSum),
                   Branch("Dbtr",
                     <<Leaf("Nm", mappedData.debtor.name),
                       Nested(<<"Id", "OrgId", "Othr", "Id">>,
                              mappedData.debtor.identification)>>),
                   Branch("DbtrAcct",
                     <<Nested(<<"Id", "Othr", "Id">>,
                              mappedData.debtorAccount.identification)>>),
                   Branch("CdtTrfTxInf",
                     <<Branch("PmtId", <<Leaf("EndToEndId", mappedData.endToEndId)>>),
                       Branch("Amt",
                         <<El("InstdAmt",
                              <<<<"Ccy", mappedData.instructedAmount.currency>>>>,
                              mappedData.instructedAmount.value, <<>>)>>),
                       Branch("Cdtr", <<Leaf("Nm", mappedData.creditor.name)>>),
                       Branch("CdtrAcct",
                         <<Nested(<<"Id", "Othr", "Id">>,
                                  mappedData.creditorAccount.identification)>>)>>
                     \o OnlyIf(mappedData.remittanceInformation # Null,
                          <<Nested(<<"RmtInf", "Ustrd">>,
                                   mappedData.remittanceInformation.unstructured)>>))>>)>>)>>)]

-----------------------------------------------------------------------------
(* ValidationService.js                                                    *)

Pacs008 == <<"p", "a", "c", "s", ".", "0", "0", "8">>

Pain001 == <<"p", "a", "i", "n", ".", "0", "0", "1">>

\* String.prototype.replace(c, ''): the first occurrence only
RemoveFirst(s, c) ==
    LET at == {i \in 1..Len(s) : s[i] = c}
    IN  IF at = {} THEN s
        ELSE SubSeq(s, 1, SetMin(at) - 1) \o SubSeq(s, SetMin(at) + 1, Len(s))

\* /^[A-Za-z0-9\-]+$/
MsgIdPattern(s) ==
    s # <<>> /\ \A i \in 1..Len(s) : s[i] \in UpperCase \cup LowerCase \cup Digits \cup {"-"}

\* /^\d+\.\d{2}$/
AmountPattern(s) ==
    /\ Len(s) >= 4
    /\ s[Len(s) - 2] = "."
    /\ \A i \in 1..Len(s) : i # Len(s) - 2 => s[i] \in Digits

\* the rule table; a key it does not hold gives NoRules
NoRules == [required |-> <<>>, maxLength |-> <<>>, patterns |-> <<>>,
            defined |-> FALSE, hasPatterns |-> FALSE]

loadValidationRules(key) ==
    IF key = RemoveFirst(Pacs008, ".")
    THEN [required |-> <<"MsgId", "CreDtTm", "NbOfTxs", "InstrId", "EndToEndId">>,
          maxLength |-> <<<<"MsgId", 35>>, <<"InstrId", 35>>, <<"EndToEndId", 35>>>>,
          patterns |-> <<"MsgId", "Amount">>,
          defined |-> TRUE, hasPatterns |-> TRUE]
    ELSE IF key = RemoveFirst(Pain001, ".")
    THEN [required |-> <<"MsgId", "CreDtTm", "NbOfTxs", "EndToEndId">>,
          maxLength |-> <<<<"MsgId", 35>>, <<"EndToEndId", 35>>>>,
          patterns |-> <<>>,
          defined |-> TRUE, hasPatterns |-> FALSE]
    ELSE NoRules

\* xml2js values (explicitArray: false): an element without attributes and
\* children is its text, any other element an object keyed by "$" (its
\* attributes) and by its children's tags; children that share a tag are
\* one array under that tag
JsString(s) == [t |-> "string", s |-> s]

JsObject(e) == [t |-> "object", e |-> e]

JsArray(es) == [t |-> "array", es |-> es]

JsAttrs(a) == [t |-> "attrs", a |-> a]

JsNull == [t |-> "null"]

JsTruthy(v) == v.t \in {"object", "array", "attrs"} \/ (v.t = "string" /\ v.s # <<>>)

ElemValue(e) == IF e.attrs = <<>> /\ e.kids = <<>> THEN JsString(e.text) ELSE JsObject(e)

\* the (key, value) pairs a for-in loop over the value visits, in order
Entries(v) ==
    IF v.t = "object"
    THEN LET ks    == v.e.kids
             first == SelectSeq([i \in 1..Len(ks) |-> i],
                        LAMBDA i : \A j \in 1..(i - 1) : ks[j].tag # ks[i].tag)
             group(i) == SelectSeq(ks, LAMBDA k : k.tag = ks[i].tag)
         IN  (IF v.e.attrs = <<>> THEN <<>> ELSE <<<<"$", JsAttrs(v.e.attrs)>>>>)
             \o [n \in 1..Len(first) |->
                   <<ks[first[n]].tag,
                     IF Len(group(first[n])) = 1 THEN ElemValue(ks[first[n]])
                     ELSE JsArray(group(first[n]))>>]
    ELSE IF v.t = "array"
    THEN [i \in 1..Len(v.es) |-> <<ToString(i - 1), ElemValue(v.es[i])>>]
    ELSE IF v.t = "attrs"
    THEN [i \in 1..Len(v.a) |-> <<v.a[i][1], JsString(v.a[i][2])>>]
    ELSE <<>>

RECURSIVE findFieldInXML(_, _)
RECURSIVE FindFrom(_, _, _)

\* the loop body of findFieldInXML from the i-th key on
FindFrom(entries, i, fieldName) ==
    IF i > Len(entries) THEN JsNull
    ELSE IF entries[i][1] = fieldName THEN entries[i][2]
    ELSE IF entries[i][2].t \in {"object", "array", "attrs"}
    THEN LET r == findFieldInXML(entries[i][2], fieldName)
         IN  IF JsTruthy(r) THEN r ELSE FindFrom(entries, i + 1, fieldName)
    ELSE FindFrom(entries, i + 1, fieldName)

findFieldInXML(obj, fieldName) ==
    IF obj.t \notin {"object", "array", "attrs"} THEN JsNull
    ELSE FindFrom(Entries(obj), 1, fieldName)

\* an XML string is a document (its root element), blank (empty or white
\* space only) or malformed (the parser's message)
BlankXml == [kind |-> "blank"]

MalformedXml(msg) == [kind |-> "malformed", message |-> msg]

\* parseString's result: an object whose one key is the root's tag; null
\* for a blank string, which the parser ends without an error
Parsed(xmlString) ==
    IF xmlString.kind = "blank" THEN JsNull
    ELSE JsObject(Branch("#document", <<xmlString.root>>))

\* value.length; 0 stands for undefined (an object has no length)
JsLength(v) ==
    IF v.t = "string" THEN Len(v.s) ELSE IF v.t = "array" THEN Len(v.es) ELSE 0

\* pattern.test(value): an object is tested as "[object Object]" and an
\* array as its elements joined by commas, which neither pattern matches
PatternTest(field, v) ==
    /\ v.t = "string"
    /\ IF field = "MsgId" THEN MsgIdPattern(v.s) ELSE AmountPattern(v.s)

\* rejects (an error message) or resolves
validateXMLStructure(xmlString) ==
    IF xmlString.kind = "malformed"
    THEN [rejected |-> TRUE, message |-> <<"XML structure invalid: ", xmlString.message>>]
    ELSE [rejected |-> FALSE, message |-> <<>>]

NoError == [thrown |-> FALSE, message |-> <<>>]

Throw(msg) == [thrown |-> TRUE, message |-> msg]

\* the first error the three loops throw on the rules of one message type,
\* if any
checkRules(rules, xmlString) ==
    LET parsed == Parsed(xmlString)
        val(f) == findFieldInXML(parsed, f)
        missing == {i \in 1..Len(rules.required) : ~JsTruthy(val(rules.required[i]))}
        tooLong == {i \in 1..Len(rules.maxLength) :
                      /\ JsTruthy(val(rules.maxLength[i][1]))
                      /\ JsLength(val(rules.maxLength[i][1])) > rules.maxLength[i][2]}
        noMatch == {i \in 1..Len(rules.patterns) :
                      /\ JsTruthy(val(rules.patterns[i]))
                      /\ ~PatternTest(rules.patterns[i], val(rules.patterns[i]))}
    IN  IF ~rules.defined THEN NoError
        ELSE IF missing # {}
        THEN Throw(<<"Required field ", rules.required[SetMin(missing)], " is missing">>)
        ELSE IF tooLong # {}
        THEN Throw(<<"Field ", rules.maxLength[SetMin(tooLong)][1],
                     " exceeds maximum length of ", rules.maxLength[SetMin(tooLong)][2]>>)
        ELSE IF ~rules.hasPatterns
        THEN Throw(<<"Cannot convert undefined or null to object">>)
        ELSE IF noMatch # {}
        THEN Throw(<<"Field ", rules.patterns[SetMin(noMatch)],
                     " does not match required pattern">>)
        ELSE NoError

\* this.validationRules[messageType.replace('.', '')], undefined for a key
\* the table does not have
rulesFor(table, msgType) ==
    IF RemoveFirst(msgType, ".") \in DOMAIN table
    THEN table[RemoveFirst(msgType, ".")]
    ELSE NoRules

validateISO20022Rules(xmlString, msgType) ==
    checkRules(loadValidationRules(RemoveFirst(msgType, ".")), xmlString)

getRequiredElements(msgType) ==
    IF msgType = Pacs008 THEN <<"GrpHdr", "CdtTrfTxInf", "IntrBkSttlmAmt">>
    ELSE IF msgType = Pain001 THEN <<"GrpHdr", "PmtInf", "CdtTrfTxInf">>
    ELSE <<>>

\* the pattern without its end anchor
isValidBICPrefix(bic) ==
    /\ Len(bic) >= 8
    /\ \A i \in 1..8 : bic[i] \in (IF i <= 6 THEN UpperCase ELSE UpperCase \cup Digits)

\* /^[A-Z]{6}[A-Z0-9]{2}([A-Z0-9]{3})?$/
isValidBIC(bic) ==
    /\ Len(bic) \in {8, 11}
    /\ \A i \in 1..Len(bic) :
          bic[i] \in (IF i <= 6 THEN UpperCase ELSE UpperCase \cup Digits)

\* /^\d+(\.\d{1,5})?$/
isValidAmount(amount) ==
    LET dots == {i \in 1..Len(amount) : amount[i] = "."}
    IN  /\ amount # <<>>
        /\ \A i \in 1..Len(amount) : amount[i] \in Digits \cup {"."}
        /\ \/ dots = {}
           \/ \E i \in 2..Len(amount) :
                 dots = {i} /\ Len(amount) - i \in 1..5

\* getElementsByTagName: the elements with the tag, in document order
RECURSIVE ElementsByTagName(_, _)
RECURSIVE ElementsOfAll(_, _, _)

ElementsOfAll(kids, i, tag) ==
    IF i > Len(kids) THEN <<>>
    ELSE ElementsByTagName(kids[i], tag) \o ElementsOfAll(kids, i + 1, tag)

ElementsByTagName(e, tag) ==
    (IF e.tag = tag THEN <<e>> ELSE <<>>) \o ElementsOfAll(e.kids, 1, tag)

\* textContent: the element's text and that of its descendants (the white
\* space that indents the children of a pretty-printed element left out)
RECURSIVE TextContent(_)
RECURSIVE TextOfAll(_, _)

TextOfAll(kids, i) ==
    IF i > Len(kids) THEN <<>> ELSE TextContent(kids[i]) \o TextOfAll(kids, i + 1)

TextContent(e) == e.text \o TextOfAll(e.kids, 1)

\* the DOM parser gives no document for a blank string, and the first
\* getElementsByTagName on it throws into the method's own catch
validateWithEnhancedRules(xmlString, msgType) ==
    LET doc      == IF xmlString.kind = "document" THEN xmlString.root
                    ELSE Branch("#none", <<>>)
        required == getRequiredElements(msgType)
        absent   == SelectSeq(required, LAMBDA el : Len(ElementsByTagName(doc, el)) = 0)
        bics     == ElementsByTagName(doc, "BIC")
        badBics  == SelectSeq(bics, LAMBDA b : ~isValidBIC(TextContent(b)))
        amounts  == ElementsByTagName(doc, "InstdAmt")
        badAmts  == SelectSeq(amounts, LAMBDA a : ~isValidAmount(TextContent(a)))
        errors   == [i \in 1..Len(absent) |-> <<"Missing required element: ", absent[i]>>]
                    \o [i \in 1..Len(badBics) |->
                          <<"Invalid BIC format: ", TextContent(badBics[i])>>]
                    \o [i \in 1..Len(badAmts) |->
                          <<"Invalid amount format: ", TextContent(badAmts[i])>>]
    IN  IF xmlString.kind = "blank"
        THEN [valid |-> FALSE, errors |-> <<<<"Enhanced validation failed">>>>,
              warnings |-> <<>>]
        ELSE [valid |-> errors = <<>>, errors |-> errors, warnings |-> <<>>]

\* validateXML whose catch block records the error but leaves isValid alone
validateXMLKeepsFlag(xmlString, msgType) ==
    IF validateXMLStructure(xmlString).rejected
    THEN [isValid |-> TRUE, errors |-> <<validateXMLStructure(xmlString).message>>,
          warnings |-> <<>>]
    ELSE IF validateISO20022Rules(xmlString, msgType).thrown
    THEN [isValid |-> TRUE,
          errors |-> <<validateISO20022Rules(xmlString, msgType).message>>,
          warnings |-> <<>>]
    ELSE LET enhancedResults == validateWithEnhancedRules(xmlString, msgType)
         IN  [isValid |-> enhancedResults.valid, errors |-> enhancedResults.errors,
              warnings |-> enhancedResults.warnings,
              swiftValidation |-> enhancedResults]

validateXML(xmlString, msgType) ==
    IF validateXMLStructure(xmlString).rejected
    THEN [isValid |-> FALSE, errors |-> <<validateXMLStructure(xmlString).message>>,
          warnings |-> <<>>]
    ELSE IF validateISO20022Rules(xmlString, msgType).thrown
    THEN [isValid |-> FALSE,
          errors |-> <<validateISO20022Rules(xmlString, msgType).message>>,
          warnings |-> <<>>]
    ELSE LET enhancedResults == validateWithEnhancedRules(xmlString, msgType)
         IN  IF ~enhancedResults.valid
             THEN [isValid |-> FALSE, errors |-> enhancedResults.errors,
                   warnings |-> enhancedResults.warnings,
                   swiftValidation |-> enhancedResults]
             ELSE [isValid |-> TRUE, errors |-> <<>>, warnings |-> <<>>,
                   swiftValidation |-> enhancedResults]

-----------------------------------------------------------------------------
(* Inputs: the transactions the ledger can hand over and the values the    *)
(* environment returns to one mapping call                                 *)

MaxHashLen == 40

MaxDropsDigits == 17

MaxMemoLen == 4

\* uuidv4(): 36 characters with "-" at 9, 14, 19 and 24
UuidOf(c) ==
    [i \in 1..36 |-> IF i \in {9, 14, 19, 24} THEN "-" ELSE IF i = 15 THEN "4" ELSE c]

\* new Date().toISOString()
IsoTime(sec) ==
    <<"2", "0", "2", "5", "-", "0", "1", "-", "0", "1", "T", "0", "0", ":", "0", "0", ":",
      "0", sec, ".", "0", "0", "0", "Z">>

\* what uuidv4() and the clock return to one call of mapXRPLToISO20022
Entropy ==
    {[uuids |-> <<UuidOf("a"), UuidOf("b"), UuidOf("c")>>, now |-> IsoTime("1")],
     [uuids |-> <<UuidOf("d"), UuidOf("e"), UuidOf("f")>>, now |-> IsoTime("2")]}

Alice == <<"r", "A", "l", "i", "c", "e", "1", "2", "3", "4">>

Bob == <<"r", "B", "o", "b", "5", "6">>

Issuer == <<"r", "I", "s", "s", "u", "e", "r">>

HCT == <<"H", "C", "T">>

USD == <<"U", "S", "D">>

\* a hash of n characters with "-" at the positions i where i % k = r
HashOf(n, k, r) ==
    [i \in 1..n |-> IF k > 0 /\ i % k = r THEN "-" ELSE HexChars[(i % 16) + 1]]

HashShapes == {<<0, 0>>, <<1, 0>>, <<2, 1>>, <<9, 0>>}

HashInputs ==
    {Undefined} \cup {Some(HashOf(n, sh[1], sh[2])) : n \in 0..MaxHashLen, sh \in HashShapes}

BaseHash == Some(HashOf(MaxHashLen, 0, 0))

\* drops: every one-digit string, and for each length four patterns, among
\* them the prefixes of 9007199254740993 (2^53 + 1)
DropsPatterns ==
    <<<<"9", "0", "0", "7", "1", "9", "9", "2", "5", "4", "7", "4", "0", "9", "9", "3",
        "1", "2", "3">>,
      <<"1", "0", "0", "0", "0", "0", "0", "0", "0", "0", "0", "0", "0", "0", "0", "0",
        "0", "0", "0">>,
      <<"9", "9", "9", "9", "9", "9", "9", "9", "9", "9", "9", "9", "9", "9", "9", "9",
        "9", "9", "9">>,
      <<"0", "1", "5", "0", "0", "0", "0", "0", "0", "7", "0", "0", "0", "0", "0", "1",
        "0", "3", "0">>>>

DropsInputs ==
    {<<c>> : c \in Digits}
    \cup {SubSeq(DropsPatterns[p], 1, n) : p \in 1..4, n \in 2..MaxDropsDigits}

NonNumericInputs == {<<>>, <<"a", "b", "c">>, <<"1", "2", "x">>, <<"1", ".", "5">>}

ValueInputs ==
    {<<>>, <<"1", "0", "0", ".", "0", "0">>, <<"4", "2", ".", "5", "0">>, <<"1", "5">>,
     <<"0", ".", "0", "0", "0", "0", "0", "1">>}

AmountInputs ==
    {AmountUndefined}
    \cup {AmountString(d) : d \in DropsInputs \cup NonNumericInputs}
    \cup {AmountObject(c, v, Issuer) : c \in {HCT, USD, <<>>}, v \in ValueInputs}

BaseAmount == AmountObject(HCT, <<"1", "0", "0", ".", "0", "0">>, Issuer)

\* MemoData of up to MaxMemoLen characters: "48" is "H", "c4 84" a two-byte
\* character, "c4" and "84" alone are not UTF-8, "z" is not hex
MemoAlphabet == {"4", "8", "c", "z"}

MemoDataInputs ==
    UNION {[1..n -> MemoAlphabet] : n \in 0..MaxMemoLen}

MemosInputs ==
    {<<>>, <<NoMemoEntry>>}
    \cup {<<MemoEntry(d)>> : d \in MemoDataInputs}
    \cup {<<MemoEntry(d), MemoEntry(<<"5", "a">>)>> : d \in {m \in MemoDataInputs : Len(m) <= 2}}

Tx(amount, hash, account, destination, memos) ==
    [TransactionType |-> "Payment", Amount |-> amount, hash |-> hash,
     Account |-> account, Destination |-> destination, Memos |-> memos]

BaseTx == Tx(BaseAmount, BaseHash, Some(Alice), Some(Bob), <<>>)

\* the transactions of the mapping runs: one property varied at a time
MapInputs ==
    {Tx(BaseAmount, h, Some(Alice), Some(Bob), <<>>) : h \in HashInputs}
    \cup {Tx(a, BaseHash, Some(Alice), Some(Bob), <<>>) : a \in AmountInputs}
    \cup {Tx(BaseAmount, h, Some(Alice), Some(Bob), m) :
            h \in {BaseHash, Undefined}, m \in MemosInputs}
    \cup {Tx(BaseAmount, BaseHash, a, d, <<>>) :
            a \in {Some(Alice), Undefined}, d \in {Some(Bob), Undefined}}

\* the transactions of the end-to-end runs
PipelineInputs ==
    {Tx(a, h, Some(Alice), Some(Bob), m) :
       a \in {AmountObject(c, v, Issuer) : c \in {HCT, USD}, v \in ValueInputs \ {<<>>}}
             \cup {AmountString(<<"1", "5", "0", "0", "0", "0", "0", "0">>)},
       h \in {Undefined}
             \cup {Some(HashOf(n, sh[1], sh[2])) : n \in {1, 2, MaxHashLen}, sh \in HashShapes},
       m \in {<<>>, <<MemoEntry(<<"4", "8", "4", "8">>)>>}}

Camt053 == <<"c", "a", "m", "t", ".", "0", "5", "3">>

MessageTypes == {Pacs008, Pain001, Camt053}

-----------------------------------------------------------------------------
(* Inputs of the Validator: the two generated documents of the base        *)
(* transaction with elements removed, texts replaced and elements added,   *)
(* a blank string and strings the parser rejects                           *)

MaxRemoved == 2

MaxExtraBics == 2

BaseMapped == mapXRPLToISO20022(BaseTx, <<UuidOf("a"), UuidOf("b"), UuidOf("c")>>,
                                IsoTime("1")).data

\* the element without its descendants tagged in tags
RECURSIVE RemoveTags(_, _)
RemoveTags(e, tags) ==
    LET keep == SelectSeq(e.kids, LAMBDA k : k.tag \notin tags)
    IN  [e EXCEPT !.kids = [i \in 1..Len(keep) |-> RemoveTags(keep[i], tags)]]

\* the element with the text of every element tagged tag replaced
RECURSIVE SetText(_, _, _)
SetText(e, tag, text) ==
    [e EXCEPT !.text = IF e.tag = tag THEN text ELSE e.text,
              !.kids = [i \in 1..Len(e.kids) |-> SetText(e.kids[i], tag, text)]]

AddKids(e, kids) == [e EXCEPT !.kids = e.kids \o kids]

RemovableTags == {"MsgId", "CreDtTm", "InstrId", "EndToEndId", "GrpHdr", "IntrBkSttlmAmt"}

RemovedInputs == {r \in SUBSET RemovableTags : Cardinality(r) <= MaxRemoved}

GoodBic == <<"D", "E", "U", "T", "D", "E", "F", "F">>

BadBic == <<"d", "e", "u", "t">>

BicInputs == UNION {[1..n -> {GoodBic, BadBic}] : n \in 0..MaxExtraBics}

TextVariants == {"asIs", "longMsgId", "badMsgId", "badAmount", "goodAmount"}

Variant(e, v) ==
    IF v = "longMsgId" THEN SetText(e, "MsgId", [i \in 1..(MaxIdLength + 1) |-> "A"])
    ELSE IF v = "badMsgId" THEN SetText(e, "MsgId", <<"A", "_", "1">>)
    ELSE IF v = "badAmount"
    THEN AddKids(SetText(e, "InstdAmt", <<"1", ".", "1", "2", "3", "4", "5", "6">>),
                 <<Leaf("Amount", <<"1", "0", ".", "5">>)>>)
    ELSE IF v = "goodAmount"
    THEN AddKids(e, <<Leaf("Amount", <<"1", "0", ".", "5", "0">>)>>)
    ELSE e

XmlInputs ==
    {BlankXml, MalformedXml("Unclosed root tag"),
     MalformedXml("Non-whitespace before first tag.")}
    \cup {[kind |-> "document",
           root |-> AddKids(Variant(RemoveTags(base.root, r), v),
                            [i \in 1..Len(b) |-> Leaf("BIC", b[i])])] :
            base \in {generatePacs008XML(BaseMapped), generatePain001XML(BaseMapped)},
            r \in RemovedInputs, v \in TextVariants, b \in BicInputs}

-----------------------------------------------------------------------------
(* The runs: a transaction is mapped, serialized in the requested format   *)
(* and validated (TransactionController.processXRPLTransaction)            *)

\* process.env and the state of the external validation endpoint it names
DefaultEnv == [SWIFT_SANDBOX_URL |-> Undefined, reachable |-> FALSE, NODE_ENV |-> "production"]

EnvInputs ==
    {DefaultEnv}
    \cup {[SWIFT_SANDBOX_URL |-> Some(<<"h", "t", "t", "p", "s", ":", "/", "/", "s", "w", "i", "f", "t">>),
           reachable |-> r, NODE_ENV |-> "production"] : r \in BOOLEAN}

\* the keys of the rule table
RuleKeys == {RemoveFirst(Pacs008, "."), RemoveFirst(Pain001, ".")}

\* new ValidationService()
ValidationService(e) ==
    [swiftSandboxUrl |-> e.SWIFT_SANDBOX_URL,
     validationRules |-> [key \in RuleKeys |-> loadValidationRules(key)]]

\* setupRateLimiting: the window and the requests per window
windowMs == 15 * 60 * 1000

maxRequests == 100

\* the clients, and the instants Date.now() shows when their requests arrive
Ips == {"10.0.0.1", "10.0.0.2"}

ClockInputs == {0, windowMs, windowMs + 1}

\* no request has arrived
NoTraffic == [seen |-> 0, at |-> [c \in Ips \X ClockInputs |-> [next |-> 0, limited |-> 0]]]

\* bcrypt.hashSync(s, 10) and bcrypt.compareSync(s, hash): the hash of a
\* string matches that string only; compareSync throws on anything that is
\* not a string
hashSync(s) == [bcrypt |-> s]

compareSync(key, hash) == key.s = hash.bcrypt

\* what a request can carry as its key (the x-api-key header or the apiKey
\* query parameter): nothing, a string, or the array of a repeated query
\* parameter
NoKey == [t |-> "undefined"]

KeyString(s) == [t |-> "string", s |-> s]

KeyArray == [t |-> "array"]

DefaultApiKey == "default_api_key_12345"

\* ApiController.initializeApiKeys: the key store, in insertion order
initializeApiKeys ==
    <<[id |-> "default", hashedKey |-> hashSync(DefaultApiKey),
       permissions |-> <<"read", "write">>, lastUsed |-> FALSE]>>

NoRequest == [key |-> NoKey, required |-> <<>>]

\* no second call, and no scan
NoCall == [pc |-> "none", response |-> [status |-> 0]]

NoScan == [at |-> "none"]

\* the application after start-up
AppStarted(e) ==
    /\ env = e
    /\ service = ValidationService(e)
    /\ calls = <<>>
    /\ apiKeys = initializeApiKeys
    /\ req = NoRequest
    /\ rateLimit = <<>>
    /\ clock = 0
    /\ log = NoTraffic
    /\ second = NoCall
    /\ scan = NoScan
    /\ issued = 0

Idle == [status |-> "idle"]

NoXml == [kind |-> "none"]

NoResult == [isValid |-> FALSE, errors |-> <<>>, warnings |-> <<>>, pending |-> TRUE]

\* no response sent yet
NoResponse == [status |-> 0]

\* a selection that also takes camt.053 for the default type
SelectedTypeLenient(selector) == IF selector \in {<<>>, Camt053} THEN Pacs008 ELSE selector

\* req.query.messageType || 'pacs.008'
SelectedType(selector) == IF selector = <<>> THEN Pacs008 ELSE selector

Init ==
    /\ pc = "start"
    /\ tx \in PipelineInputs
    /\ messageType \in MessageTypes
    /\ mapped = Idle
    /\ mapped2 = Idle
    /\ xml = NoXml
    /\ result = NoResult
    /\ db = {}
    /\ response = NoResponse
    /\ AppStarted(DefaultEnv)

\* one call of mapXRPLToISO20022
MapTx ==
    /\ pc = "start"
    /\ \E e \in Entropy :
          /\ mapped' = mapXRPLToISO20022(tx, e.uuids, e.now)
          /\ pc' = IF mapped'.status = "returns" THEN "mapped" ELSE "failed"
    /\ UNCHANGED <<tx, messageType, mapped2, xml, result, db, response, appState>>

\* a second call on the same transaction
MapTxAgain ==
    /\ pc = "mapped"
    /\ mapped2 = Idle
    /\ \E e \in Entropy : mapped2' = mapXRPLToISO20022(tx, e.uuids, e.now)
    /\ UNCHANGED <<pc, tx, messageType, mapped, xml, result, db, response, appState>>

GenerateXML ==
    /\ pc = "mapped"
    /\ xml' = IF SelectedType(messageType) = Pacs008 THEN generatePacs008XML(mapped.data)
              ELSE IF SelectedType(messageType) = Pain001 THEN generatePain001XML(mapped.data)
              ELSE NoXml
    /\ pc' = IF SelectedType(messageType) \in {Pacs008, Pain001} THEN "generated"
             ELSE "unsupported"
    /\ UNCHANGED <<tx, messageType, mapped, mapped2, result, db, response, appState>>

ValidateXML ==
    /\ pc = "generated"
    /\ result' = validateXML(xml, SelectedType(messageType))
    /\ pc' = "validated"
    /\ UNCHANGED <<tx, messageType, mapped, mapped2, xml, db, response, appState>>

Next == MapTx \/ GenerateXML \/ ValidateXML

Spec == Init /\ [][Next]_vars

\* mapXRPLToISO20022 on its own, called twice on each transaction
InitMap ==
    /\ pc = "start"
    /\ tx \in MapInputs
    /\ messageType = Pacs008
    /\ mapped = Idle
    /\ mapped2 = Idle
    /\ xml = NoXml
    /\ result = NoResult
    /\ db = {}
    /\ response = NoResponse
    /\ AppStarted(DefaultEnv)

NextMap == MapTx \/ MapTxAgain

SpecMap == InitMap /\ [][NextMap]_vars

\* validateXML on its own, on every document and message type
InitValidate ==
    /\ pc = "generated"
    /\ tx = BaseTx
    /\ messageType \in MessageTypes
    /\ mapped = Idle
    /\ mapped2 = Idle
    /\ xml \in XmlInputs
    /\ result = NoResult
    /\ db = {}
    /\ response = NoResponse
    /\ \E e \in EnvInputs : AppStarted(e)

NextValidate == ValidateXML

SpecValidate == InitValidate /\ [][NextValidate]_vars

\* validateXML on documents that carry BIC elements of every shape
BicTexts ==
    {GoodBic, BadBic, <<>>,
     <<"D", "E", "U", "T", "D", "E", "F", "F", "5", "0", "0">>,
     <<"D", "E", "U", "T", "D", "E", "F", "F", "X">>,
     <<"D", "E", "U", "T", "1", "E", "F", "F">>}

BicXmlInputs ==
    {BlankXml}
    \cup {[kind |-> "document",
           root |-> AddKids(generatePacs008XML(BaseMapped).root,
                            [i \in 1..Len(b) |-> Leaf("BIC", b[i])])] :
            b \in UNION {[1..n -> BicTexts] : n \in 0..MaxExtraBics}}

InitBic ==
    /\ pc = "generated"
    /\ tx = BaseTx
    /\ messageType \in MessageTypes
    /\ mapped = Idle
    /\ mapped2 = Idle
    /\ xml \in BicXmlInputs
    /\ result = NoResult
    /\ db = {}
    /\ response = NoResponse
    /\ AppStarted(DefaultEnv)

SpecBic == InitBic /\ [][NextValidate]_vars

\* a test that takes any transaction with an HCT amount of the issuer
isHCTTransactionAnyType(transaction) ==
    /\ transaction.Amount.type = "object"
    /\ transaction.Amount.currency = HCT
    /\ transaction.Amount.issuer = Issuer

\* XRPLService.isHCTTransaction, with HCT_CURRENCY_CODE and HCT_TOKEN_ISSUER
\* set to HCT and Issuer
isHCTTransaction(transaction) ==
    /\ transaction.TransactionType = "Payment"
    /\ transaction.Amount.type = "object"
    /\ transaction.Amount.currency = HCT
    /\ transaction.Amount.issuer = Issuer

\* the requests of processXRPLTransaction: the ledger answers the request
\* for a hash with the transaction of that hash
ProcessInputs ==
    {Tx(a, h, Some(Alice), d, m) :
       a \in {AmountObject(HCT, v, Issuer) : v \in ValueInputs \ {<<>>}}
             \cup {AmountObject(USD, <<"1", "5">>, Issuer),
                   AmountString(<<"1", "5", "0", "0", "0", "0", "0", "0">>)},
       h \in {Undefined}
             \cup {Some(HashOf(n, sh[1], sh[2])) : n \in {1, MaxHashLen}, sh \in HashShapes},
       d \in {Some(Bob), Undefined},
       m \in {<<>>, <<MemoEntry(<<"4", "8", "4", "8">>)>>, <<NoMemoEntry>>}}
    \cup {[Tx(AmountObject(HCT, <<"1", "5">>, Issuer), Some(HashOf(1, 1, 1)),
               Some(Alice), Some(Bob), <<>>) EXCEPT !.TransactionType = "CheckCash"],
          Tx(AmountObject(HCT, <<"1", "5">>, Alice), Some(HashOf(1, 1, 1)),
             Some(Alice), Some(Bob), <<>>)}

\* a row of the transactions table (id, processedAt and the timestamps
\* left out)
TransactionRecord(txHash, t, xmlString, validationResults) ==
    [xrplTxHash |-> txHash,
     fromAddress |-> t.Account,
     toAddress |-> t.Destination,
     amount |-> extractAmount(t.Amount),
     currency |-> currencyOrHCT(t.Amount),
     memo |-> IF extractMemoThrows(t) THEN Undefined ELSE extractMemo(t),
     rawTransaction |-> t,
     iso20022Xml |-> xmlString,
     validationStatus |-> IF validationResults.isValid THEN "valid" ELSE "invalid",
     validationErrors |-> validationResults.errors,
     processed |-> TRUE]

\* the table before the request: empty, a row of another transaction, or
\* also a row of the requested hash
DbInputs(t) ==
    LET other == TransactionRecord(<<"O", "T", "H", "E", "R">>, BaseTx, NoXml, NoResult)
    IN  {{}, {other}} \cup
        (IF t.hash.def THEN {{other, [other EXCEPT !.xrplTxHash = t.hash.s]}} ELSE {})

InitProcess ==
    /\ pc = "request"
    /\ tx \in ProcessInputs
    /\ messageType \in MessageTypes \cup {<<>>}
    /\ mapped = Idle
    /\ mapped2 = Idle
    /\ xml = NoXml
    /\ result = NoResult
    /\ db \in DbInputs(tx)
    /\ response = NoResponse
    /\ AppStarted(DefaultEnv)

\* a request that looks nothing up: the ledger is asked at once
ReceiveNoLookup ==
    /\ pc = "request"
    /\ \E fetched \in BOOLEAN :
          /\ response' =
               IF ~Truthy(tx.hash)
               THEN [status |-> 400, error |-> "Transaction hash is required"]
               ELSE IF ~fetched
               THEN [status |-> 500, error |-> "Transaction not found."]
               ELSE IF ~isHCTTransaction(tx)
               THEN [status |-> 400, error |-> "Not an HCT transaction"]
               ELSE NoResponse
          /\ pc' = IF response' = NoResponse THEN "start" ELSE "responded"
    /\ UNCHANGED <<tx, messageType, mapped, mapped2, xml, result, db, appState>>

\* processXRPLTransaction up to the mapping: the hash is required, a hash
\* already in the table is answered with its row, the ledger is asked for
\* the transaction (the request can fail), which must be an HCT payment
Receive ==
    /\ pc = "request"
    /\ \E fetched \in BOOLEAN :
          /\ response' =
               IF ~Truthy(tx.hash)
               THEN [status |-> 400, error |-> "Transaction hash is required"]
               ELSE IF \E row \in db : row.xrplTxHash = tx.hash.s
               THEN [status |-> 200, message |-> "Transaction already processed",
                     transaction |-> CHOOSE row \in db : row.xrplTxHash = tx.hash.s]
               ELSE IF ~fetched
               THEN [status |-> 500, error |-> "Transaction not found."]
               ELSE IF ~isHCTTransaction(tx)
               THEN [status |-> 400, error |-> "Not an HCT transaction"]
               ELSE NoResponse
          /\ pc' = IF response' = NoResponse THEN "start" ELSE "responded"
    /\ UNCHANGED <<tx, messageType, mapped, mapped2, xml, result, db, appState>>

\* a controller that falls back to an unvalidated row when the mapper throws
RespondErrorFallback ==
    /\ pc \in {"failed", "unsupported"}
    /\ response' = IF pc = "unsupported"
                   THEN [status |-> 400, error |-> "Unsupported message type"]
                   ELSE [status |-> 200, error |-> mapped.error]
    /\ db' = IF pc = "unsupported"
             THEN db
             ELSE db \cup {[xrplTxHash |-> tx.hash.s, validationStatus |-> "pending"]}
    /\ pc' = "responded"
    /\ UNCHANGED <<tx, messageType, mapped, mapped2, xml, result, appState>>

\* the answers to an unsupported message type and to an error thrown by
\* the mapper
RespondError ==
    /\ pc \in {"failed", "unsupported"}
    /\ response' = IF pc = "unsupported"
                   THEN [status |-> 400, error |-> "Unsupported message type"]
                   ELSE [status |-> 500, error |-> mapped.error]
    /\ pc' = "responded"
    /\ UNCHANGED <<tx, messageType, mapped, mapped2, xml, result, db, appState>>

\* a controller that stores valid documents only
SaveTxOnlyValid ==
    /\ pc = "validated"
    /\ db' = IF result.isValid
             THEN db \cup {TransactionRecord(tx.hash.s, tx, xml, result)}
             ELSE db
    /\ response' = IF result.isValid
                   THEN [status |-> 200,
                         transaction |-> TransactionRecord(tx.hash.s, tx, xml, result),
                         iso20022Xml |-> xml,
                         validation |-> result]
                   ELSE [status |-> 500, error |-> "Validation failed"]
    /\ pc' = "responded"
    /\ UNCHANGED <<tx, messageType, mapped, mapped2, xml, result, appState>>

\* the unique index on xrplTxHash: an insert of a hash the table has is
\* rejected
uniqueViolation(table, row) == \E old \in table : old.xrplTxHash = row.xrplTxHash

\* Transaction.create and the answer with the row, the XML and the
\* validation result; a row the table rejects is an error, answered by the
\* catch block as any other
SaveTx ==
    /\ pc = "validated"
    /\ IF uniqueViolation(db, TransactionRecord(tx.hash.s, tx, xml, result))
       THEN /\ db' = db
            /\ response' = [status |-> 500, error |-> "Validation error"]
       ELSE /\ db' = db \cup {TransactionRecord(tx.hash.s, tx, xml, result)}
            /\ response' = [status |-> 200,
                            transaction |-> TransactionRecord(tx.hash.s, tx, xml, result),
                            iso20022Xml |-> xml,
                            validation |-> result]
    /\ pc' = "responded"
    /\ UNCHANGED <<tx, messageType, mapped, mapped2, xml, result, appState>>

NextProcess == Receive \/ MapTx \/ GenerateXML \/ ValidateXML \/ RespondError \/ SaveTx

SpecProcess == InitProcess /\ [][NextProcess]_vars

\* concurrent validateXML calls on the one ValidationService: each call
\* runs from one await to the next in one step
MaxCalls == 2

ConcurrentInputs ==
    {[xmlString |-> x, messageType |-> t] :
       x \in {generatePacs008XML(BaseMapped),
              [kind |-> "document",
               root |-> RemoveTags(generatePacs008XML(BaseMapped).root, {"InstrId"})],
              MalformedXml("Unclosed root tag")},
       t \in {Pacs008, Pain001}}

InitConcurrent ==
    /\ pc = "serving"
    /\ tx = BaseTx
    /\ messageType = Pacs008
    /\ mapped = Idle
    /\ mapped2 = Idle
    /\ xml = NoXml
    /\ result = NoResult
    /\ db = {}
    /\ response = NoResponse
    /\ AppStarted(DefaultEnv)

\* validateXML is called: results is initialised and the structure check
\* is awaited
StartCall ==
    /\ Len(calls) < MaxCalls
    /\ \E in \in ConcurrentInputs :
          calls' = Append(calls, [xmlString |-> in.xmlString,
                                  messageType |-> in.messageType,
                                  at |-> "structure",
                                  results |-> [isValid |-> TRUE, errors |-> <<>>,
                                               warnings |-> <<>>]])
    /\ UNCHANGED <<pc, tx, messageType, mapped, mapped2, xml, result, db, response,
                   env, background, service, gateway>>

Caught(call, msg) ==
    [call EXCEPT !.at = "done",
                 !.results = [isValid |-> FALSE, errors |-> <<msg>>, warnings |-> <<>>]]

\* a call whose rule check empties the list of required fields it walked
CallRulesConsuming(c) ==
    /\ c \in DOMAIN calls
    /\ calls[c].at = "rules"
    /\ LET thrown == checkRules(rulesFor(service.validationRules, calls[c].messageType),
                                calls[c].xmlString)
           key == RemoveFirst(calls[c].messageType, ".")
       IN  /\ calls' = [calls EXCEPT ![c] = IF thrown.thrown THEN Caught(@, thrown.message)
                                            ELSE [@ EXCEPT !.at = "enhanced"]]
           /\ service' = [service EXCEPT !.validationRules[key].required = <<>>]
    /\ UNCHANGED <<pc, tx, messageType, mapped, mapped2, xml, result, db, response, env, background, gateway>>

\* await this.validateXMLStructure(xmlString) has settled
CallStructure(c) ==
    /\ c \in DOMAIN calls
    /\ calls[c].at = "structure"
    /\ LET parsed == validateXMLStructure(calls[c].xmlString)
       IN  calls' = [calls EXCEPT ![c] = IF parsed.rejected THEN Caught(@, parsed.message)
                                         ELSE [@ EXCEPT !.at = "rules"]]
    /\ UNCHANGED <<pc, tx, messageType, mapped, mapped2, xml, result, db, response,
                   env, background, service, gateway>>

\* await this.validateISO20022Rules(xmlString, messageType) has settled: the
\* rules are read from the table of the service
CallRules(c) ==
    /\ c \in DOMAIN calls
    /\ calls[c].at = "rules"
    /\ LET thrown == checkRules(rulesFor(service.validationRules, calls[c].messageType),
                                calls[c].xmlString)
       IN  calls' = [calls EXCEPT ![c] = IF thrown.thrown THEN Caught(@, thrown.message)
                                         ELSE [@ EXCEPT !.at = "enhanced"]]
    /\ UNCHANGED <<pc, tx, messageType, mapped, mapped2, xml, result, db, response,
                   env, background, service, gateway>>

\* await this.validateWithEnhancedRules(xmlString, messageType) has settled
\* and the call returns
CallEnhanced(c) ==
    /\ c \in DOMAIN calls
    /\ calls[c].at = "enhanced"
    /\ LET enhancedResults == validateWithEnhancedRules(calls[c].xmlString,
                                                        calls[c].messageType)
       IN  calls' = [calls EXCEPT ![c] =
                       [@ EXCEPT !.at = "done",
                                 !.results =
                                    IF ~enhancedResults.valid
                                    THEN [isValid |-> FALSE,
                                          errors |-> enhancedResults.errors,
                                          warnings |-> enhancedResults.warnings,
                                          swiftValidation |-> enhancedResults]
                                    ELSE [isValid |-> TRUE, errors |-> <<>>,
                                          warnings |-> <<>>,
                                          swiftValidation |-> enhancedResults]]]
    /\ UNCHANGED <<pc, tx, messageType, mapped, mapped2, xml, result, db, response,
                   env, background, service, gateway>>

NextConcurrent ==
    \/ StartCall
    \/ \E c \in 1..MaxCalls : CallStructure(c)
    \/ \E c \in 1..MaxCalls : CallRules(c)
    \/ \E c \in 1..MaxCalls : CallEnhanced(c)

SpecConcurrent == InitConcurrent /\ [][NextConcurrent]_vars

\* the guarded routes: a request arrives at authenticateApiKey(P), which
\* answers it or passes it to the handler; keys are generated and revoked
\* meanwhile
MaxKeys == 2

\* how many keys are generated
MaxIssued == 2

\* uuidv4(): the n-th key generated and the n-th key id, each new
GeneratedKeys == <<"generated_key_1", "generated_key_2", "generated_key_3">>

KeyIds == <<"key_1", "key_2", "key_3">>

KeyInputs ==
    {NoKey, KeyArray, KeyString(""), KeyString(DefaultApiKey), KeyString("unknown_key")}
    \cup {KeyString(GeneratedKeys[n]) : n \in 1..MaxIssued}

\* the ids DELETE /keys/:keyId is called with
KeyIdInputs == {"default", "unknown"} \cup {KeyIds[n] : n \in 1..MaxIssued}

\* the permission lists of the guards
RequiredInputs == {<<>>, <<"read">>, <<"write">>, <<"admin">>}

Includes(seq, x) == \E i \in DOMAIN seq : seq[i] = x

\* ApiController.validateApiKey: whether the lookup throws, and the index of
\* the first stored key the given key matches (0 for null)
validateApiKeyThrows(store, key) == key.t # "string" /\ Len(store) > 0

validateApiKey(store, key) ==
    IF \E i \in DOMAIN store : compareSync(key, store[i].hashedKey)
    THEN SetMin({i \in DOMAIN store : compareSync(key, store[i].hashedKey)})
    ELSE 0

\* the answer of the middleware returned by authenticateApiKey(required),
\* status 0 standing for next()
authenticateApiKey(store, required, key) ==
    IF key.t = "undefined" \/ key = KeyString("")
    THEN [status |-> 401, error |-> "API key required"]
    ELSE IF validateApiKeyThrows(store, key)
    THEN [status |-> 500, error |-> "Authentication error"]
    ELSE IF key.t # "string" \/ validateApiKey(store, key) = 0
    THEN [status |-> 401, error |-> "Invalid API key"]
    ELSE IF /\ Len(required) > 0
            /\ ~\E i \in DOMAIN required :
                  Includes(store[validateApiKey(store, key)].permissions, required[i])
    THEN [status |-> 403, error |-> "Insufficient permissions"]
    ELSE [status |-> 0]

InitAuth ==
    /\ pc = "idle"
    /\ tx = BaseTx
    /\ messageType = Pacs008
    /\ mapped = Idle
    /\ mapped2 = Idle
    /\ xml = NoXml
    /\ result = NoResult
    /\ db = {}
    /\ response = NoResponse
    /\ AppStarted(DefaultEnv)

\* a request reaches a guarded route
Arrive ==
    /\ pc = "idle"
    /\ \E k \in KeyInputs, required \in RequiredInputs :
          req' = [key |-> k, required |-> required]
    /\ response' = NoResponse
    /\ pc' = "auth"
    /\ UNCHANGED <<tx, messageType, mapped, mapped2, xml, result, db, env, background, service, calls,
                   apiKeys, rateLimit, clock, log>>

\* the middleware runs: validateApiKey stamps the key it matched
Authenticate ==
    /\ pc = "auth"
    /\ response' = authenticateApiKey(apiKeys, req.required, req.key)
    /\ apiKeys' = IF /\ req.key.t = "string"
                     /\ req.key.s # ""
                     /\ validateApiKey(apiKeys, req.key) # 0
                  THEN [apiKeys EXCEPT ![validateApiKey(apiKeys, req.key)].lastUsed = TRUE]
                  ELSE apiKeys
    /\ pc' = IF response'.status = 0 THEN "handler" ELSE "idle"
    /\ UNCHANGED <<tx, messageType, mapped, mapped2, xml, result, db, env, background, service, calls,
                   req, rateLimit, clock, log>>

\* the route handler runs and answers
Handle ==
    /\ pc = "handler"
    /\ response' = [status |-> 200]
    /\ pc' = "idle"
    /\ UNCHANGED <<tx, messageType, mapped, mapped2, xml, result, db, appState>>

\* the requests of the key routes, which no guard reads the key of
KeyRouteRequests == {[key |-> k, required |-> <<>>] : k \in {NoKey, KeyString(DefaultApiKey)}}

\* POST /keys, ApiController.generateApiKey: a new key and a new id with
\* the permissions of the body, returned once
generateApiKey ==
    /\ pc = "idle"
    /\ Len(apiKeys) < MaxKeys
    /\ issued < MaxIssued
    /\ issued < Len(GeneratedKeys)
    /\ req' \in KeyRouteRequests
    /\ issued' = issued + 1
    /\ \E permissions \in {<<"read">>, <<"write">>, <<"admin">>} :
          /\ apiKeys' = Append(apiKeys, [id |-> KeyIds[issued'],
                                         hashedKey |-> hashSync(GeneratedKeys[issued']),
                                         permissions |-> permissions, lastUsed |-> FALSE])
          /\ response' = [status |-> 200, keyId |-> KeyIds[issued'],
                          apiKey |-> GeneratedKeys[issued'], permissions |-> permissions]
    /\ UNCHANGED <<pc, tx, messageType, mapped, mapped2, xml, result, db, env, second, scan,
                   service, calls, rateLimit, clock, log>>

\* GET /keys, ApiController.listApiKeys
listApiKeys ==
    /\ pc = "idle"
    /\ req' \in KeyRouteRequests
    /\ response' = [status |-> 200,
                    apiKeys |-> [i \in DOMAIN apiKeys |->
                                   [id |-> apiKeys[i].id,
                                    permissions |-> apiKeys[i].permissions,
                                    lastUsed |-> apiKeys[i].lastUsed]]]
    /\ UNCHANGED <<pc, tx, messageType, mapped, mapped2, xml, result, db, env, background,
                   service, calls, apiKeys, rateLimit, clock, log>>

\* a handler that answers success to an unknown id and empties the store
revokeApiKeyAll ==
    /\ pc = "idle"
    /\ req' \in KeyRouteRequests
    /\ \E keyId \in KeyIdInputs :
          /\ apiKeys' = IF \E i \in DOMAIN apiKeys : apiKeys[i].id = keyId
                        THEN SelectSeq(apiKeys, LAMBDA k : k.id # keyId)
                        ELSE <<>>
          /\ response' = [status |-> 200, message |-> "API key revoked successfully",
                          keyId |-> keyId]
    /\ UNCHANGED <<pc, tx, messageType, mapped, mapped2, xml, result, db, env, background,
                   service, calls, rateLimit, clock, log>>

\* DELETE /keys/:keyId, ApiController.revokeApiKey (the answer is given
\* with the id of the request)
revokeApiKey ==
    /\ pc = "idle"
    /\ req' \in KeyRouteRequests
    /\ \E keyId \in KeyIdInputs :
          IF \E i \in DOMAIN apiKeys : apiKeys[i].id = keyId
          THEN /\ apiKeys' = SelectSeq(apiKeys, LAMBDA k : k.id # keyId)
               /\ response' = [status |-> 200, message |-> "API key revoked successfully",
                               keyId |-> keyId]
          ELSE /\ apiKeys' = apiKeys
               /\ response' = [status |-> 404, error |-> "API key not found",
                               keyId |-> keyId]
    /\ UNCHANGED <<pc, tx, messageType, mapped, mapped2, xml, result, db, env, background,
                   service, calls, rateLimit, clock, log>>

NextAuth ==
    Arrive \/ Authenticate \/ Handle \/ generateApiKey \/ listApiKeys \/ revokeApiKey

SpecAuth == InitAuth /\ [][NextAuth]_vars

\* the rate limiter in front of every route
MaxSent == 4

\* the table without the entries whose window is over
cleanOld(table, t) ==
    [key \in {key \in DOMAIN table : ~(table[key].resetTime < t)} |-> table[key]]

\* the entry of the client after its request is counted
userLimit(table, ip, t) ==
    LET found == IF ip \in DOMAIN cleanOld(table, t) THEN cleanOld(table, t)[ip]
                 ELSE [count |-> 0, resetTime |-> t + windowMs]
        fresh == IF found.resetTime < t THEN [count |-> 0, resetTime |-> t + windowMs]
                 ELSE found
    IN  [fresh EXCEPT !.count = @ + 1]

\* a limiter that lets one request more through
tooManyLax(limit) == limit.count > maxRequests + 1

tooMany(limit) == limit.count > maxRequests

\* Math.ceil(ms / 1000)
CeilSeconds(ms) == (ms + 999) \div 1000

\* the middleware of setupRateLimiting on one request
RateLimiter ==
    /\ pc = "idle"
    /\ log.seen < MaxSent
    /\ \E ip \in Ips, t \in ClockInputs :
          /\ t >= clock
          /\ clock' = t
          /\ IF env.NODE_ENV = "test"
             THEN /\ rateLimit' = rateLimit
                  /\ response' = NoResponse
                  /\ pc' = "handler"
                  /\ log' = [log EXCEPT !.seen = @ + 1, !.at[<<ip, t>>].next = @ + 1]
             ELSE /\ rateLimit' =
                        [key \in DOMAIN cleanOld(rateLimit, t) \cup {ip} |->
                            IF key = ip THEN userLimit(rateLimit, ip, t)
                            ELSE cleanOld(rateLimit, t)[key]]
                  /\ IF tooMany(userLimit(rateLimit, ip, t))
                     THEN /\ response' =
                               [status |-> 429, error |-> "Too many requests",
                                retryAfter |->
                                   CeilSeconds(userLimit(rateLimit, ip, t).resetTime - t)]
                          /\ pc' = "idle"
                          /\ log' = [log EXCEPT !.seen = @ + 1,
                                                !.at[<<ip, t>>].limited = @ + 1]
                     ELSE /\ response' = NoResponse
                          /\ pc' = "handler"
                          /\ log' = [log EXCEPT !.seen = @ + 1, !.at[<<ip, t>>].next = @ + 1]
    /\ UNCHANGED <<tx, messageType, mapped, mapped2, xml, result, db, env, background, service, calls,
                   apiKeys, req>>

\* the limiter is observed from start-up, or from the moment when some
\* clients have each sent one request at instant 0 and maxRequests - 2 more
\* at instant windowMs, all of them passed on: in production their entries
\* count maxRequests - 1 requests in a window that ends at windowMs
InitRate ==
    /\ pc = "idle"
    /\ tx = BaseTx
    /\ messageType = Pacs008
    /\ mapped = Idle
    /\ mapped2 = Idle
    /\ xml = NoXml
    /\ result = NoResult
    /\ db = {}
    /\ response = NoResponse
    /\ env \in {[DefaultEnv EXCEPT !.NODE_ENV = mode] : mode \in {"production", "test"}}
    /\ service = ValidationService(env)
    /\ calls = <<>>
    /\ apiKeys = initializeApiKeys
    /\ req = NoRequest
    /\ second = NoCall
    /\ scan = NoScan
    /\ issued = 0
    /\ \E busy \in SUBSET Ips :
          /\ clock = IF busy = {} THEN 0 ELSE windowMs
          /\ rateLimit = IF env.NODE_ENV = "test" THEN <<>>
                         ELSE [ip \in busy |-> [count |-> maxRequests - 1,
                                                resetTime |-> windowMs]]
          /\ log = [seen |-> 0,
                    at |-> [c \in Ips \X ClockInputs |->
                              [next |-> IF c[1] \notin busy THEN 0
                                        ELSE IF c[2] = 0 THEN 1
                                        ELSE IF c[2] = windowMs THEN maxRequests - 2
                                        ELSE 0,
                               limited |-> 0]]]

NextRate == RateLimiter \/ Handle

SpecRate == InitRate /\ [][NextRate]_vars

\* one request after the other: the ledger holds two token payments that
\* can be mapped and one that cannot
RepeatInputs ==
    {Tx(AmountObject(HCT, <<"1", "0", "0", ".", "0", "0">>, Issuer),
        Some(<<h>>), Some(Alice), IF h = "C" THEN Undefined ELSE Some(Bob), <<>>) :
       h \in {"A", "B", "C"}}

RepeatSelectors == {<<>>, Pain001, Camt053}

InitRepeat ==
    /\ pc = "request"
    /\ tx \in RepeatInputs
    /\ messageType \in RepeatSelectors
    /\ mapped = Idle
    /\ mapped2 = Idle
    /\ xml = NoXml
    /\ result = NoResult
    /\ db = {}
    /\ response = NoResponse
    /\ AppStarted(DefaultEnv)

\* the next call of processXRPLTransaction, after the previous one answered
NewRequest ==
    /\ pc = "responded"
    /\ tx' \in RepeatInputs
    /\ messageType' \in RepeatSelectors
    /\ pc' = "request"
    /\ mapped' = Idle
    /\ xml' = NoXml
    /\ result' = NoResult
    /\ response' = NoResponse
    /\ UNCHANGED <<mapped2, db, appState>>

NextRepeat ==
    Receive \/ MapTx \/ GenerateXML \/ ValidateXML \/ RespondError \/ SaveTx \/ NewRequest

SpecRepeat == InitRepeat /\ [][NextRepeat]_vars

\* the ids revalidateTransaction is called with: a row is addressed by the
\* hash it stores (the generated primary key is left out of the rows), and
\* "Z" is the id of no row
RevalidateIds == {<<"A">>, <<"Z">>}

\* the message types revalidateTransaction is asked for
RevalidateSelectors == {<<>>, Pain001}

\* a handler that stores the new errors and keeps the old status
RevalidateKeepStatus ==
    /\ pc = "responded"
    /\ \E id \in RevalidateIds, selector \in RevalidateSelectors :
          /\ messageType' = selector
          /\ IF ~ \E row \in db : row.xrplTxHash = id
             THEN /\ response' = [status |-> 404, error |-> "Transaction not found"]
                  /\ UNCHANGED <<db, result>>
             ELSE LET transaction == CHOOSE row \in db : row.xrplTxHash = id
                      updated == [transaction EXCEPT !.validationErrors = result'.errors]
                  IN  /\ result' = validateXML(transaction.iso20022Xml,
                                               SelectedType(selector))
                      /\ db' = (db \ {transaction}) \cup {updated}
                      /\ response' = [status |-> 200, transaction |-> updated,
                                      validation |-> result']
    /\ UNCHANGED <<pc, tx, mapped, mapped2, xml, appState>>

\* revalidateTransaction, between two calls of processXRPLTransaction: the
\* row of the id is looked up, its XML validated as the selected type, and
\* the status and the errors of the row replaced
Revalidate ==
    /\ pc = "responded"
    /\ \E id \in RevalidateIds, selector \in RevalidateSelectors :
          /\ messageType' = selector
          /\ IF ~ \E row \in db : row.xrplTxHash = id
             THEN /\ response' = [status |-> 404, error |-> "Transaction not found"]
                  /\ UNCHANGED <<db, result>>
             ELSE LET transaction == CHOOSE row \in db : row.xrplTxHash = id
                  IN  IF transaction.iso20022Xml = NoXml
                      THEN /\ response' = [status |-> 400, error |-> "No XML to validate"]
                           /\ UNCHANGED <<db, result>>
                      ELSE LET updated ==
                                 [transaction EXCEPT
                                    !.validationStatus =
                                       IF result'.isValid THEN "valid" ELSE "invalid",
                                    !.validationErrors = result'.errors]
                           IN  /\ result' = validateXML(transaction.iso20022Xml,
                                                        SelectedType(selector))
                               /\ db' = (db \ {transaction}) \cup {updated}
                               /\ response' = [status |-> 200, transaction |-> updated,
                                               validation |-> result']
    /\ UNCHANGED <<pc, tx, mapped, mapped2, xml, appState>>

NextRevalidate ==
    \/ Receive \/ MapTx \/ GenerateXML \/ ValidateXML \/ RespondError \/ SaveTx
    \/ NewRequest \/ Revalidate

\* process and revalidate operations in any order
SpecRevalidate == InitRepeat /\ [][NextRevalidate]_vars

\* two calls of processXRPLTransaction for the same hash, e.g. the HTTP
\* request and the call the scheduler makes with an empty query: the second
\* call runs from one access to the table to the next in one step
InitRace ==
    /\ pc = "request"
    /\ tx \in RepeatInputs
    /\ messageType \in {<<>>, Pain001}
    /\ mapped = Idle
    /\ mapped2 = Idle
    /\ xml = NoXml
    /\ result = NoResult
    /\ db \in {d \in DbInputs(tx) : \A row \in d : row.xrplTxHash # tx.hash.s}
    /\ response = NoResponse
    /\ AppStarted(DefaultEnv)

\* the second call begins
SecondStart ==
    /\ second.pc = "none"
    /\ second' = [second EXCEPT !.pc = "request"]
    /\ UNCHANGED <<pc, tx, messageType, mapped, mapped2, xml, result, db, response,
                   env, service, calls, gateway, scan, issued>>

\* the second call looks the hash up and asks the ledger
SecondReceive ==
    /\ second.pc = "request"
    /\ \E fetched \in BOOLEAN :
          second' =
             IF \E row \in db : row.xrplTxHash = tx.hash.s
             THEN [pc |-> "responded",
                   response |-> [status |-> 200, message |-> "Transaction already processed",
                                 transaction |-> CHOOSE row \in db :
                                                    row.xrplTxHash = tx.hash.s]]
             ELSE IF ~fetched
             THEN [pc |-> "responded",
                   response |-> [status |-> 500, error |-> "Transaction not found."]]
             ELSE IF ~isHCTTransaction(tx)
             THEN [pc |-> "responded",
                   response |-> [status |-> 400, error |-> "Not an HCT transaction"]]
             ELSE [pc |-> "fetched", response |-> NoResponse]
    /\ UNCHANGED <<pc, tx, messageType, mapped, mapped2, xml, result, db, response,
                   env, service, calls, gateway, scan, issued>>

\* the second call maps, serializes (pacs.008, its query being empty) and
\* validates the transaction, and creates its row
SecondSave ==
    /\ second.pc = "fetched"
    /\ \E e \in Entropy :
          \E m \in {mapXRPLToISO20022(tx, e.uuids, e.now)} :
             IF m.status = "throws"
             THEN /\ db' = db
                  /\ second' = [pc |-> "responded",
                                response |-> [status |-> 500, error |-> m.error]]
             ELSE \E x \in {generatePacs008XML(m.data)} :
                  \E v \in {validateXML(x, Pacs008)} :
                  \E row \in {TransactionRecord(tx.hash.s, tx, x, v)} :
                     IF uniqueViolation(db, row)
                     THEN /\ db' = db
                          /\ second' = [pc |-> "responded",
                                        response |-> [status |-> 500,
                                                      error |-> "Validation error"]]
                     ELSE /\ db' = db \cup {row}
                          /\ second' = [pc |-> "responded",
                                        response |-> [status |-> 200, transaction |-> row,
                                                      iso20022Xml |-> x, validation |-> v]]
    /\ UNCHANGED <<pc, tx, messageType, mapped, mapped2, xml, result, response,
                   env, service, calls, gateway, scan, issued>>

NextRace ==
    \/ Receive \/ MapTx \/ GenerateXML \/ ValidateXML \/ RespondError \/ SaveTx
    \/ SecondStart \/ SecondReceive \/ SecondSave

SpecRace == InitRace /\ [][NextRace]_vars

\* the scan of the scheduler.  MONITORED_ADDRESSES, split at the commas
MonitoredInputs == {<<>>, <<Alice>>, <<Alice, Bob>>}

\* the ledger of the scan: the payments "A" and "B" from Alice to Bob, the
\* payment "C" of Alice that the mapper rejects, and a payment in USD
ScanLedger ==
    <<Tx(AmountObject(HCT, <<"1", "0", "0", ".", "0", "0">>, Issuer),
         Some(<<"A">>), Some(Alice), Some(Bob), <<>>),
      Tx(AmountObject(HCT, <<"1", "0", "0", ".", "0", "0">>, Issuer),
         Some(<<"C">>), Some(Alice), Undefined, <<>>),
      Tx(AmountObject(USD, <<"1", "5">>, Issuer),
         Some(<<"U">>), Some(Alice), Some(Bob), <<>>),
      Tx(AmountObject(HCT, <<"1", "0", "0", ".", "0", "0">>, Issuer),
         Some(<<"B">>), Some(Alice), Some(Bob), <<>>)>>

\* getAccountTransactions(address).transactions: the transactions of the
\* ledger that the address sent or received
AccountTransactions(address) ==
    SelectSeq(ScanLedger, LAMBDA t : t.Account = Some(address) \/ t.Destination = Some(address))

\* the tables processXRPLTransaction can leave when called with the hash of
\* the transaction and an empty query: the table as it was when the hash is
\* stored, the ledger does not answer, the transaction is no HCT payment or
\* the mapper throws, and otherwise the table with the new row
ProcessedTables(table, t) ==
    {table} \cup
    {table \cup {TransactionRecord(t.hash.s, t,
                    generatePacs008XML(mapXRPLToISO20022(t, e.uuids, e.now).data),
                    validateXML(generatePacs008XML(mapXRPLToISO20022(t, e.uuids, e.now).data),
                                Pacs008))} :
       e \in {en \in Entropy :
                /\ ~ \E row \in table : row.xrplTxHash = t.hash.s
                /\ isHCTTransaction(t)
                /\ mapXRPLToISO20022(t, en.uuids, en.now).status # "throws"}}

\* the table before a scan: empty, or with the row of "A" that an earlier
\* scan stored
InitScan ==
    /\ pc = "responded"
    /\ tx = BaseTx
    /\ messageType = <<>>
    /\ mapped = Idle
    /\ mapped2 = Idle
    /\ xml = NoXml
    /\ result = NoResult
    /\ db \in ProcessedTables({}, ScanLedger[1])
    /\ response = NoResponse
    /\ AppStarted(DefaultEnv)

\* the cron job calls scanForNewTransactions
StartScan ==
    /\ scan.at = "none"
    /\ \E monitoredAddresses \in MonitoredInputs :
          scan' = [at |-> "address", monitored |-> monitoredAddresses, address |-> 1,
                   listing |-> <<>>, index |-> 1, before |-> db, handed |-> <<>>]
    /\ UNCHANGED <<pc, tx, messageType, mapped, mapped2, xml, result, db, response,
                   env, service, calls, gateway, second, issued>>

\* the outer loop: the transactions of the next address are asked for; a
\* request that fails ends the scan in its catch block
ScanAddress ==
    /\ scan.at = "address"
    /\ IF scan.address > Len(scan.monitored)
       THEN scan' = [scan EXCEPT !.at = "done"]
       ELSE \E listed \in BOOLEAN :
               scan' = IF listed
                       THEN [scan EXCEPT !.at = "transaction",
                                         !.listing = AccountTransactions(
                                                        scan.monitored[scan.address]),
                                         !.index = 1]
                       ELSE [scan EXCEPT !.at = "aborted"]
    /\ UNCHANGED <<pc, tx, messageType, mapped, mapped2, xml, result, db, response,
                   env, service, calls, gateway, second, issued>>

\* the inner loop: an HCT transaction with no row is handed to
\* processXRPLTransaction, whose answer is dropped
ScanTransaction ==
    /\ scan.at = "transaction"
    /\ IF scan.index > Len(scan.listing)
       THEN /\ scan' = [scan EXCEPT !.at = "address", !.address = @ + 1]
            /\ db' = db
       ELSE LET t == scan.listing[scan.index]
            IN  IF /\ isHCTTransaction(t)
                   /\ ~ \E row \in db : row.xrplTxHash = t.hash.s
                THEN /\ db' \in ProcessedTables(db, t)
                     /\ scan' = [scan EXCEPT !.index = @ + 1,
                                             !.handed = Append(@, t.hash.s)]
                ELSE /\ db' = db
                     /\ scan' = [scan EXCEPT !.index = @ + 1]
    /\ UNCHANGED <<pc, tx, messageType, mapped, mapped2, xml, result, response,
                   env, service, calls, gateway, second, issued>>

NextScan == StartScan \/ ScanAddress \/ ScanTransaction

SpecScan == InitScan /\ [][NextScan]_vars

\* the generators on their own, on records whose optional parts vary
GenerateInputs ==
    {Tx(BaseAmount, Some(HashOf(n, sh[1], sh[2])), Some(Alice), Some(Bob), <<>>) :
       n \in {1, 2, MaxHashLen}, sh \in HashShapes}

InitGenerate ==
    /\ pc = "mapped"
    /\ tx \in GenerateInputs
    /\ messageType \in MessageTypes
    /\ mapped \in
         {[status |-> "returns",
           data |-> [mapXRPLToISO20022(tx, e.uuids, e.now).data
                       EXCEPT !.remittanceInformation = r, !.purposeCode = p]] :
            e \in Entropy,
            r \in {Null, [unstructured |-> <<>>], [unstructured |-> <<"H", "i">>]},
            p \in {<<>>, <<"C", "B", "F", "F">>}}
    /\ mapped2 = Idle
    /\ xml = NoXml
    /\ result = NoResult
    /\ db = {}
    /\ response = NoResponse
    /\ AppStarted(DefaultEnv)

NextGenerate == GenerateXML

SpecGenerate == InitGenerate /\ [][NextGenerate]_vars

-----------------------------------------------------------------------------
(* Properties of validateXML (SpecValidate)                                *)

\* the text of the document's first element with the tag; <<>> if none
FieldText(x, field) ==
    LET es == ElementsByTagName(x.root, field)
    IN  IF es = <<>> THEN <<>> ELSE TextContent(es[1])

\* the number of rules the document violates: required fields that are
\* missing or empty, fields over their maximum length, fields that do not
\* match their pattern, required elements that are missing, BICs and
\* amounts of a wrong format
ViolationCount(x, msgType) ==
    LET rules == loadValidationRules(RemoveFirst(msgType, "."))
    IN  Cardinality({i \in 1..Len(rules.required) : FieldText(x, rules.required[i]) = <<>>})
        + Cardinality({i \in 1..Len(rules.maxLength) :
                         Len(FieldText(x, rules.maxLength[i][1])) > rules.maxLength[i][2]})
        + Cardinality({i \in 1..Len(rules.patterns) :
                         /\ FieldText(x, rules.patterns[i]) # <<>>
                         /\ ~PatternTest(rules.patterns[i],
                                         JsString(FieldText(x, rules.patterns[i])))})
        + Cardinality({i \in 1..Len(getRequiredElements(msgType)) :
                         ElementsByTagName(x.root, getRequiredElements(msgType)[i]) = <<>>})
        + Len(SelectSeq(ElementsByTagName(x.root, "BIC"),
                        LAMBDA b : ~isValidBIC(TextContent(b))))
        + Len(SelectSeq(ElementsByTagName(x.root, "InstdAmt"),
                        LAMBDA a : ~isValidAmount(TextContent(a))))

\* C1: for well-formed XML the errors list that validateXML returns has one
\* entry per violated rule, and isValid is false when there is one; XML
\* without two required fields and with one invalid BIC yields three errors.
C1_ErrorsAggregated ==
    (pc = "validated" /\ xml.kind = "document")
        => /\ Len(result.errors) = ViolationCount(xml, messageType)
           /\ (ViolationCount(xml, messageType) > 0 => ~result.isValid)

\* C2: the result of validateXML has isValid = true if and only if its
\* errors list is empty, and isValid is true only when the XML parsed and
\* violates no rule.
C2_ValidIffNoErrors ==
    pc = "validated"
        => /\ result.isValid <=> (result.errors = <<>>)
           /\ result.isValid => (xml.kind = "document" /\ ViolationCount(xml, messageType) = 0)

C2_Witness ==
    /\ pc = "validated"
    /\ result.isValid
    /\ Len(ElementsByTagName(xml.root, "BIC")) = MaxExtraBics

\* C3: for XML that is not well-formed validateXML runs no rule check and
\* returns isValid = false, exactly one error, the malformed-XML error, and
\* no warnings.
C3_MalformedShortCircuits ==
    (pc = "validated" /\ xml.kind # "document")
        => /\ ~result.isValid
           /\ Len(result.errors) = 1
           /\ result.errors[1][1] = "XML structure invalid: "
           /\ result.warnings = <<>>

-----------------------------------------------------------------------------
(* Properties of mapXRPLToISO20022 (SpecMap)                               *)

\* C5: two calls of mapXRPLToISO20022 on the same transaction return
\* records with the same messageId, instructionId, endToEndId and
\* instructedAmount.
C5_SameIdentifiers ==
    (mapped.status = "returns" /\ mapped2.status = "returns")
        => /\ mapped.data.messageId = mapped2.data.messageId
           /\ mapped.data.instructionId = mapped2.data.instructionId
           /\ mapped.data.endToEndId = mapped2.data.endToEndId
           /\ mapped.data.instructedAmount = mapped2.data.instructedAmount

\* the string without "-", cut to its first n characters
StrippedPrefix(str, n) ==
    LET kept == {i \in 1..Len(str) : str[i] # "-"}
        pos  == {i \in kept : Cardinality({j \in kept : j <= i}) <= n}
    IN  [k \in 1..Cardinality(pos) |->
           str[CHOOSE i \in pos : Cardinality({j \in pos : j <= i}) = k]]

\* C6: whatever the hash (any length, any number of "-", or absent),
\* messageId, instructionId and endToEndId are at most 35 characters long
\* and hold no "-"; when the hash is present (a non-empty string),
\* instructionId and endToEndId are the hash without its "-", cut to its
\* first 35 characters.
C6_IdentifiersBounded ==
    pc = "mapped"
        => /\ \A id \in {mapped.data.messageId, mapped.data.instructionId,
                         mapped.data.endToEndId} :
                 Len(id) <= 35 /\ \A i \in 1..Len(id) : id[i] # "-"
           /\ Truthy(tx.hash)
                 => /\ mapped.data.instructionId = StrippedPrefix(tx.hash.s, 35)
                    /\ mapped.data.endToEndId = StrippedPrefix(tx.hash.s, 35)

C6_Witness ==
    /\ pc = "mapped"
    /\ Truthy(tx.hash)
    /\ Len(tx.hash.s) = MaxHashLen
    /\ \E i \in 1..Len(tx.hash.s) : tx.hash.s[i] = "-"
    /\ Len(mapped.data.instructionId) = 35

\* the decimal rendering of d / 1,000,000 for a string d of digits
ExactDecimal(d) ==
    LET nz    == {i \in 1..Len(d) : d[i] # "0"}
        t     == IF nz = {} THEN <<>> ELSE SubSeq(d, SetMin(nz), Len(d))
        p     == IF Len(t) >= 7 THEN t ELSE [i \in 1..(7 - Len(t)) |-> "0"] \o t
        whole == SubSeq(p, 1, Len(p) - 6)
        frac  == SubSeq(p, Len(p) - 5, Len(p))
        fnz   == {i \in 1..6 : frac[i] # "0"}
    IN  IF fnz = {} THEN whole ELSE whole \o <<".">> \o SubSeq(frac, 1, SetMax(fnz))

IsDigits(str) == str # <<>> /\ \A i \in 1..Len(str) : str[i] \in Digits

\* C7: for an Amount that is a string of a non-negative integer d,
\* instructedAmount.value and controlSum are the decimal rendering of
\* d / 1,000,000; for an Amount that is an object with a value they are that
\* value unchanged.
C7_AmountExtracted ==
    pc = "mapped"
        => /\ (tx.Amount.type = "string" /\ IsDigits(tx.Amount.s))
                 => /\ mapped.data.instructedAmount.value = ExactDecimal(tx.Amount.s)
                    /\ mapped.data.controlSum = ExactDecimal(tx.Amount.s)
           /\ (tx.Amount.type = "object" /\ tx.Amount.value # <<>>)
                 => /\ mapped.data.instructedAmount.value = tx.Amount.value
                    /\ mapped.data.controlSum = tx.Amount.value

\* a numeric-unit string, or an object with currency and value
RecognizedAmount(amount) ==
    \/ amount.type = "string" /\ IsDigits(amount.s)
    \/ amount.type = "object" /\ amount.currency # <<>> /\ amount.value # <<>>

\* C8: mapXRPLToISO20022 fails if and only if the Amount is absent or of an
\* unrecognized shape, and then with a MalformedAmount error; for every
\* other input it returns a record.
C8_FailsOnlyOnMalformedAmount ==
    pc \in {"mapped", "failed"}
        => /\ (mapped.status = "throws") <=> ~RecognizedAmount(tx.Amount)
           /\ (mapped.status = "throws") => (mapped.error = "MalformedAmount")

\* the bytes a string of hex digit pairs stands for
HexBytes(str) ==
    [i \in 1..(Len(str) \div 2) |-> 16 * HexVal(str[2 * i - 1]) + HexVal(str[2 * i])]

ValidHex(str) ==
    /\ str # <<>>
    /\ Len(str) % 2 = 0
    /\ \A i \in 1..Len(str) : IsHexChar(str[i])

FirstMemoData == tx.Memos[1].Memo.MemoData

HasFirstMemo == Len(tx.Memos) > 0 /\ tx.Memos[1].Memo # Null /\ FirstMemoData # <<>>

\* C9: with a first memo whose MemoData is hex, unstructured is the UTF-8
\* decoding of that MemoData, whatever the later memos; without a memo it
\* is the fallback string, which ends with the transaction hash; in every
\* mapped record unstructured is non-empty.
C9_RemittanceText ==
    pc = "mapped"
        => LET u == mapped.data.remittanceInformation.unstructured
           IN  /\ (HasFirstMemo /\ ValidHex(FirstMemoData))
                     => u = BufferToString(HexBytes(FirstMemoData))
               /\ (tx.Memos = <<>> /\ tx.hash.def)
                     => /\ Len(u) > Len(tx.hash.s)
                        /\ SubSeq(u, Len(u) - Len(tx.hash.s) + 1, Len(u)) = tx.hash.s
                        /\ SubSeq(u, 1, 3) = HCT
               /\ u # <<>>

C9_Witness ==
    /\ pc = "mapped"
    /\ Len(tx.Memos) = 2
    /\ HasFirstMemo
    /\ ValidHex(FirstMemoData)
    /\ mapped.data.remittanceInformation.unstructured = <<"H">>

\* C10: when the first memo's MemoData is not valid hex or does not decode
\* to valid UTF-8, mapXRPLToISO20022 fails with a MemoDecodeError.
C10_InvalidMemoFails ==
    (/\ pc \in {"mapped", "failed"}
     /\ HasFirstMemo
     /\ \/ ~ValidHex(FirstMemoData)
        \/ \E i \in 1..Len(BufferToString(HexBytes(FirstMemoData))) :
              BufferToString(HexBytes(FirstMemoData))[i] = CharOf(65533))
        => /\ mapped.status = "throws"
           /\ mapped.error = "MemoDecodeError"

-----------------------------------------------------------------------------
(* Properties of the whole run (Spec)                                      *)

\* C4: for a token Payment (an Amount object with currency and value, an
\* Account, a Destination and a non-empty hash) the pacs.008 document has
\* one IntrBkSttlmAmt whose Ccy is the currency and whose text is the value,
\* and validateXML finds it valid with no errors.
C4_TokenPaymentValidates ==
    (/\ pc = "validated"
     /\ messageType = Pacs008
     /\ tx.Amount.type = "object"
     /\ tx.Amount.currency # <<>>
     /\ tx.Amount.value # <<>>
     /\ Truthy(tx.hash))
        => LET es == ElementsByTagName(xml.root, "IntrBkSttlmAmt")
           IN  /\ Len(es) = 1
               /\ es[1].attrs = <<<<"Ccy", tx.Amount.currency>>>>
               /\ es[1].text = tx.Amount.value
               /\ result.isValid
               /\ result.errors = <<>>

-----------------------------------------------------------------------------
(* Properties of the generators (SpecGenerate)                             *)

\* the number of elements of the document with the tag
TagCount(x, tag) == Len(ElementsByTagName(x.root, tag))

\* C11: the pacs.008 document holds exactly one RmtInf/Ustrd if
\* remittanceInformation.unstructured is non-empty and none if it is empty,
\* exactly one Purp/Cd if purposeCode is non-empty and none if it is empty,
\* and every other element in every case.
C11_OptionalElements ==
    (pc = "generated" /\ messageType = Pacs008)
        => LET d    == mapped.data
               rmt  == IF d.remittanceInformation # Null
                          /\ d.remittanceInformation.unstructured # <<>>
                       THEN 1 ELSE 0
               purp == IF d.purposeCode # <<>> THEN 1 ELSE 0
           IN  /\ TagCount(xml, "RmtInf") = rmt
               /\ TagCount(xml, "Ustrd") = rmt
               /\ TagCount(xml, "Purp") = purp
               /\ TagCount(xml, "Cd") = purp
               /\ \A tag \in {"Document", "FIToFICstmrCdtTrf", "GrpHdr", "MsgId", "CreDtTm",
                              "NbOfTxs", "CtrlSum", "InstgAgt", "InstdAgt", "CdtTrfTxInf",
                              "PmtId", "InstrId", "EndToEndId", "TxId", "IntrBkSttlmAmt",
                              "ChrgBr", "Dbtr", "DbtrAcct", "Cdtr", "CdtrAcct", "Nm"} :
                     TagCount(xml, tag) >= 1

(***************************************************************************)
(* The message-type selector                                               *)
(***************************************************************************)

UnsupportedMessageType == [status |-> 400, error |-> "Unsupported message type"]

\* C12 (as stated): for any selector other than 'pacs.008' and 'pain.001',
\* a request whose transaction reached the pipeline ends with the
\* unsupported-message-type error, with no XML and no validation.
C12_AnyOtherSelectorUnsupported ==
    (messageType \notin {Pacs008, Pain001} /\ mapped # Idle /\ pc = "responded")
        => (response = UnsupportedMessageType /\ xml = NoXml /\ result = NoResult)

\* C12 (amended): for any non-empty selector other than 'pacs.008' and
\* 'pain.001' no XML is produced, no validation is run and no Transaction
\* record is created, and once the transaction has been mapped the request
\* ends with the unsupported-message-type error; the empty selector stands
\* for 'pacs.008', and an error of the mapper is answered before the
\* selector is looked at.
C12_ClosedSelector ==
    /\ [](messageType \notin {<<>>, Pacs008, Pain001}
            => /\ xml = NoXml
               /\ result = NoResult
               /\ (pc = "responded" /\ mapped # Idle /\ mapped.status = "returns")
                     => response = UnsupportedMessageType)
    /\ [][messageType \notin {<<>>, Pacs008, Pain001} => db' = db]_vars

C12_Witness ==
    /\ messageType = Camt053
    /\ pc = "responded"
    /\ mapped # Idle
    /\ mapped.status = "returns"
    /\ response = UnsupportedMessageType

(***************************************************************************)
(* The external conformance check                                          *)
(***************************************************************************)

\* the warnings of a result that report the external validator unavailable
ExternalWarnings(r) ==
    {i \in DOMAIN r.warnings : r.warnings[i] = <<"ExternalValidatorUnavailable">>}

\* C13: when an external validation endpoint is configured but unreachable,
\* validateXML returns a result whose isValid follows the local checks and
\* whose warnings hold exactly one ExternalValidatorUnavailable warning;
\* when no endpoint is configured there is no such warning.
C13_ExternalCheck ==
    pc = "validated" =>
        /\ result.isValid = (result.errors = <<>>)
        /\ (service.swiftSandboxUrl.def /\ ~env.reachable)
              => Cardinality(ExternalWarnings(result)) = 1
        /\ ~service.swiftSandboxUrl.def
              => ExternalWarnings(result) = {}

\* the part of C13 that holds: isValid follows the local checks and no
\* result carries a warning, whatever the endpoint
C13_LocalOnly ==
    pc = "validated" =>
        /\ result.isValid = (result.errors = <<>>)
        /\ result.warnings = <<>>
        /\ result = validateXML(xml, SelectedType(messageType))

(***************************************************************************)
(* Failures in the pipeline                                                *)
(***************************************************************************)

\* C14: when validateXML returns isValid = false for the generated XML, the
\* next step of processXRPLTransaction creates the Transaction record with
\* validationStatus 'invalid', validationErrors equal to the returned
\* errors and iso20022Xml equal to the generated XML, and answers with the
\* record, the XML and the validation result under status 200.
C14_InvalidIsStored ==
    [][(pc = "validated" /\ ~result.isValid)
          => \E row \in db' \ db :
                /\ row.xrplTxHash = tx.hash.s
                /\ row.validationStatus = "invalid"
                /\ row.validationErrors = result.errors
                /\ row.iso20022Xml = xml
                /\ xml.kind = "document"
                /\ response' = [status |-> 200, transaction |-> row,
                                iso20022Xml |-> xml, validation |-> result]]_vars

C14_Witness ==
    /\ pc = "responded"
    /\ result # NoResult
    /\ ~result.isValid
    /\ result.errors # <<>>
    /\ response = [status |-> 200,
                   transaction |-> TransactionRecord(tx.hash.s, tx, xml, result),
                   iso20022Xml |-> xml, validation |-> result]
    /\ TransactionRecord(tx.hash.s, tx, xml, result) \in db

\* C15: if the mapper throws while a transaction is processed, the caller
\* receives an error response (status 500) carrying the error, no
\* Transaction record is created for that hash and the records of other
\* transactions stay as they are; a record is created only after mapping,
\* serialization and validation have all completed, and it is the record of
\* the processed hash.  (The generators build the document from strings
\* the mapper returned and raise no error of their own.)
C15_ErrorsAreFatal ==
    /\ []((mapped.status = "throws" /\ pc = "responded")
            => response = [status |-> 500, error |-> mapped.error])
    /\ [][mapped.status = "throws" => db' = db]_vars
    /\ [][/\ db \subseteq db'
          /\ db' # db =>
                /\ pc = "validated"
                /\ mapped.status = "returns"
                /\ xml.kind = "document"
                /\ result = validateXML(xml, SelectedType(messageType))
                /\ \A row \in db' \ db : row.xrplTxHash = tx.hash.s]_vars

C15_Witness ==
    /\ pc = "responded"
    /\ mapped.status = "throws"
    /\ response = [status |-> 500, error |-> mapped.error]
    /\ db # {}
    /\ \A row \in db : row.xrplTxHash # tx.hash.s

(***************************************************************************)
(* Concurrent validations                                                  *)
(***************************************************************************)

\* C16: no validateXML call changes validationRules, and in any
\* interleaving of concurrent validateXML calls on one ValidationService
\* each call returns the result it returns when run alone.
C16_Reentrant ==
    /\ service.validationRules = ValidationService(env).validationRules
    /\ \A c \in DOMAIN calls :
          calls[c].at = "done"
             => calls[c].results = validateXML(calls[c].xmlString, calls[c].messageType)

\* two calls on well-formed documents have both returned, with different
\* results
C16_Witness ==
    /\ Len(calls) = 2
    /\ \A c \in DOMAIN calls :
          /\ calls[c].at = "done"
          /\ calls[c].xmlString.kind = "document"
    /\ calls[1].results # calls[2].results

(***************************************************************************)
(* API key authentication                                                  *)
(***************************************************************************)

\* the request at the guard carries a key that matches a stored key
Matches ==
    /\ req.key.t = "string"
    /\ \E i \in DOMAIN apiKeys : compareSync(req.key, apiKeys[i].hashedKey)

\* and a stored key it matches has a permission the guard asks for
Permitted ==
    /\ req.key.t = "string"
    /\ \E i \in DOMAIN apiKeys :
          /\ compareSync(req.key, apiKeys[i].hashedKey)
          /\ \E j \in DOMAIN req.required : Includes(apiKeys[i].permissions, req.required[j])

\* C17: a route guarded by authenticateApiKey(P) passes the request to its
\* handler only if the request carries a key that matches a key now in the
\* key store (the default key validating with read and write) and that key
\* has at least one permission of P; a request with no key or a key that
\* matches none gets 401, a matching key without a required permission gets
\* 403, and in both cases the handler is not run.
C17_KeyGuard ==
    [][pc = "auth" =>
          /\ pc' = "handler" => Permitted
          /\ ~Matches => (response'.status = 401 /\ pc' # "handler")
          /\ (Matches /\ ~Permitted) => (response'.status = 403 /\ pc' # "handler")
          /\ (req.key = KeyString(DefaultApiKey) /\ apiKeys = initializeApiKeys
                /\ req.required \in {<<"read">>, <<"write">>}) => pc' = "handler"]_vars

\* the part of C17 that holds: a guard with a non-empty P passes a request
\* only with a matching key that has a permission of P and answers 403 to a
\* matching key that has none, an empty P asks for a matching key only, and
\* without a matching key the handler never runs: the answer is 401, or 500
\* when the key is not a string and the store is not empty
C17_GuardHolds ==
    [][pc = "auth" =>
          /\ pc' = "handler" => (Matches /\ (req.required # <<>> => Permitted))
          /\ ~Matches => /\ pc' # "handler"
                         /\ response'.status =
                               IF req.key = KeyArray /\ apiKeys # <<>> THEN 500 ELSE 401
          /\ (Matches /\ ~Permitted /\ req.required # <<>>)
                => (response'.status = 403 /\ pc' # "handler")
          /\ (req.key = KeyString(DefaultApiKey) /\ apiKeys = initializeApiKeys
                /\ req.required \in {<<"read">>, <<"write">>}) => pc' = "handler"]_vars

(***************************************************************************)
(* Rate limiting                                                           *)
(***************************************************************************)

\* how many requests of the client the limiter passed on at the instants
\* from..to
RECURSIVE PassedAt(_, _)
PassedAt(ip, instants) ==
    IF instants = {} THEN 0
    ELSE LET t == CHOOSE t \in instants : TRUE
         IN  log.at[<<ip, t>>].next + PassedAt(ip, instants \ {t})

AdmittedIn(ip, from, to) == PassedAt(ip, {t \in ClockInputs : from <= t /\ t <= to})

\* C18 (as stated, outside the test environment): for every client IP at
\* most 100 requests are admitted past the rate limiter in any period of
\* 15 minutes.
C18_AnyPeriod ==
    env.NODE_ENV # "test" =>
        \A ip \in Ips, start \in ClockInputs :
            AdmittedIn(ip, start, start + windowMs - 1) <= maxRequests

\* C18 (amended): outside the test environment, for every client IP at most
\* 100 requests are admitted in one window of the limiter, which begins
\* with the first request the client sends after its previous window has
\* ended and ends 15 minutes later; every further request of that client in
\* the window is answered 429 and does not reach a route handler.
C18_PerWindow ==
    /\ [](env.NODE_ENV # "test" =>
            \A ip \in DOMAIN rateLimit :
                AdmittedIn(ip, rateLimit[ip].resetTime - windowMs, rateLimit[ip].resetTime)
                    <= maxRequests)
    /\ [][\A ip \in Ips :
            (/\ env.NODE_ENV # "test"
             /\ log'.seen = log.seen + 1
             /\ log'.at[<<ip, clock'>>] # log.at[<<ip, clock'>>]
             /\ ip \in DOMAIN rateLimit
             /\ rateLimit[ip].resetTime >= clock'
             /\ rateLimit[ip].count >= maxRequests)
               => /\ response'.status = 429
                  /\ pc' = "idle"
                  /\ log'.at[<<ip, clock'>>].next = log.at[<<ip, clock'>>].next]_vars

\* a client has had 100 requests admitted in its window and a further one
\* answered 429, while another client is still served
C18_Witness ==
    /\ env.NODE_ENV # "test"
    /\ pc = "idle"
    /\ response.status = 429
    /\ \E ip \in DOMAIN rateLimit :
          /\ AdmittedIn(ip, rateLimit[ip].resetTime - windowMs, rateLimit[ip].resetTime)
                = maxRequests
          /\ log.at[<<ip, clock>>].limited > 0
          /\ \E other \in Ips \ {ip} : log.at[<<other, clock>>].next > 0

(***************************************************************************)
(* The field search                                                        *)
(***************************************************************************)

SearchedFields == {"MsgId", "CreDtTm", "NbOfTxs", "InstrId", "EndToEndId", "Nm", "InstdAmt",
                   "Ustrd", "Purp", "Amount"}

\* C19: findFieldInXML returns the first element with the requested tag
\* name in document order whenever the parsed tree has such an element, and
\* null only when no element has that tag name.
C19_FirstInDocumentOrder ==
    (pc \in {"generated", "validated"} /\ xml.kind = "document") =>
        \A fieldName \in SearchedFields :
            LET elements == ElementsByTagName(xml.root, fieldName)
                found    == findFieldInXML(Parsed(xml), fieldName)
            IN  IF elements = <<>> THEN found = JsNull
                ELSE found = ElemValue(elements[1])

\* the part of C19 that holds on the generated documents: the search
\* returns the first element in document order unless that element is
\* empty, and null when no element has the tag
C19_FirstNonEmpty ==
    (pc \in {"generated", "validated"} /\ xml.kind = "document") =>
        \A fieldName \in SearchedFields :
            LET elements == ElementsByTagName(xml.root, fieldName)
                found    == findFieldInXML(Parsed(xml), fieldName)
            IN  IF elements = <<>> THEN found = JsNull
                ELSE JsTruthy(ElemValue(elements[1])) => found = ElemValue(elements[1])

(***************************************************************************)
(* The amounts of the mapper under the check of the validator              *)
(***************************************************************************)

\* C20: every instructed amount value the mapper produces from a drops
\* string of a non-negative integer satisfies isValidAmount (digits,
\* optionally a dot and one to five fractional digits).
C20_MappedAmountIsValid ==
    (/\ pc = "mapped"
     /\ tx.Amount.type = "string"
     /\ tx.Amount.s # <<>>
     /\ IsDigits(tx.Amount.s))
        => isValidAmount(mapped.data.instructedAmount.value)

\* the part of C20 that holds: the amount of a whole multiple of ten drops
\* below 10^15 passes the check
C20_MultiplesOfTen ==
    (/\ pc = "mapped"
     /\ tx.Amount.type = "string"
     /\ tx.Amount.s # <<>>
     /\ IsDigits(tx.Amount.s)
     /\ Len(tx.Amount.s) <= 15
     /\ tx.Amount.s[Len(tx.Amount.s)] = "0")
        => isValidAmount(mapped.data.instructedAmount.value)

(***************************************************************************)
(* The BIC check                                                           *)
(***************************************************************************)

\* a bank identifier: 6 letters, 2 alphanumerics and optionally 3 more
BicShape(text) ==
    /\ Len(text) \in {6 + 2, 6 + 2 + 3}
    /\ \A i \in 1..6 : text[i] \in UpperCase
    /\ \A i \in 7..Len(text) : text[i] \in UpperCase \cup Digits

\* how often an item occurs in a sequence
Occurrences(seq, item) == Cardinality({i \in DOMAIN seq : seq[i] = item})

\* C21: for XML that passes the rule-table checks, the result holds exactly
\* one 'Invalid BIC format' error for each BIC element whose text is not a
\* bank identifier, none for a BIC element that is one, and no BIC error at
\* all when the XML has no BIC element.
C21_BicErrors ==
    (/\ pc = "validated"
     /\ ~validateXMLStructure(xml).rejected
     /\ ~validateISO20022Rules(xml, SelectedType(messageType)).thrown)
        => LET bics == IF xml.kind = "document" THEN ElementsByTagName(xml.root, "BIC")
                       ELSE <<>>
               texts == [i \in DOMAIN bics |-> TextContent(bics[i])]
               bicErrors == SelectSeq(result.errors,
                                      LAMBDA e : e[1] = "Invalid BIC format: ")
           IN  /\ \A i \in DOMAIN texts :
                     Occurrences(bicErrors, <<"Invalid BIC format: ", texts[i]>>)
                        = IF BicShape(texts[i]) THEN 0 ELSE Occurrences(texts, texts[i])
               /\ \A j \in DOMAIN bicErrors : \E i \in DOMAIN texts : bicErrors[j][2] = texts[i]

\* a validated document with a well-formed and a malformed BIC element
C21_Witness ==
    /\ pc = "validated"
    /\ xml.kind = "document"
    /\ ~validateISO20022Rules(xml, SelectedType(messageType)).thrown
    /\ \E b \in DOMAIN ElementsByTagName(xml.root, "BIC") :
          BicShape(TextContent(ElementsByTagName(xml.root, "BIC")[b]))
    /\ Occurrences(result.errors,
                   <<"Invalid BIC format: ", <<"D", "E", "U", "T", "D", "E", "F", "F", "X">>>>) = 1

(***************************************************************************)
(* The customer-initiation format end to end                               *)
(***************************************************************************)

\* C22: for every record produced by mapXRPLToISO20022 whose instructed
\* amount has at most 5 fractional digits,
\* validateXML(generatePain001XML(record), 'pain.001') returns isValid = true
\* with an empty errors list.
C22_Pain001Validates ==
    (/\ pc = "validated"
     /\ messageType = Pain001
     /\ isValidAmount(mapped.data.instructedAmount.value))
        => (result.isValid /\ result.errors = <<>>)

\* what the code does instead: no pain.001 document validates, and the
\* documents that have every required field within its length fail on the
\* missing patterns of the pain.001 rules
C22_Pain001NeverValidates ==
    (pc = "validated" /\ messageType = Pain001)
        => /\ ~result.isValid
           /\ Len(result.errors) = 1
           /\ result.errors[1] \in
                 {<<"Cannot convert undefined or null to object">>,
                  <<"Required field ", "EndToEndId", " is missing">>}

(***************************************************************************)
(* Message types without rules                                             *)
(***************************************************************************)

\* C23: for no message type, the unsupported ones included, does
\* well-formed XML that lacks MsgId or GrpHdr validate as valid.
C23_NeverValidWithoutRequired ==
    (/\ pc = "validated"
     /\ xml.kind = "document"
     /\ \/ ElementsByTagName(xml.root, "MsgId") = <<>>
        \/ ElementsByTagName(xml.root, "GrpHdr") = <<>>)
        => ~result.isValid

\* the part of C23 that holds: under 'pacs.008' and 'pain.001' such XML is
\* invalid
C23_SupportedTypes ==
    (/\ pc = "validated"
     /\ SelectedType(messageType) \in {Pacs008, Pain001}
     /\ xml.kind = "document"
     /\ \/ ElementsByTagName(xml.root, "MsgId") = <<>>
        \/ ElementsByTagName(xml.root, "GrpHdr") = <<>>)
        => ~result.isValid

(***************************************************************************)
(* Processing the same hash again                                          *)
(***************************************************************************)

\* C24: after any sequence of processXRPLTransaction calls there is at most
\* one Transaction record per xrplTxHash, and a call for a hash that has a
\* record answers with that record and 'Transaction already processed',
\* whatever the ledger would say, without mapping, validating or changing
\* any stored record.
C24_IdempotentPerHash ==
    /\ [](\A r1, r2 \in db : r1.xrplTxHash = r2.xrplTxHash => r1 = r2)
    /\ [][(/\ pc = "request"
           /\ Truthy(tx.hash)
           /\ \E row \in db : row.xrplTxHash = tx.hash.s)
             => /\ \E row \in db :
                      /\ row.xrplTxHash = tx.hash.s
                      /\ response' = [status |-> 200,
                                      message |-> "Transaction already processed",
                                      transaction |-> row]
                /\ pc' = "responded"
                /\ UNCHANGED <<db, mapped, xml, result>>]_vars

\* a second call for a stored hash has been answered with the record, while
\* the table holds the records of two hashes
C24_Witness ==
    /\ pc = "responded"
    /\ Cardinality(db) = 2
    /\ mapped = Idle
    /\ \E row \in db :
          /\ row.xrplTxHash = tx.hash.s
          /\ response = [status |-> 200, message |-> "Transaction already processed",
                         transaction |-> row]

(***************************************************************************)
(* Two calls for the same hash                                             *)
(***************************************************************************)

\* C25: for any interleaving of two processXRPLTransaction calls for the
\* same hash, once both have answered (the ledger having answered both,
\* the transaction being one the mapper accepts) exactly one Transaction
\* record exists for the hash and neither call has ended with an error
\* response.
C25_OneRecordNoError ==
    (/\ pc = "responded"
     /\ tx.Destination.def
     /\ second.pc = "responded"
     /\ response # [status |-> 500, error |-> "Transaction not found."]
     /\ second.response # [status |-> 500, error |-> "Transaction not found."])
        => /\ Cardinality({row \in db : row.xrplTxHash = tx.hash.s}) = 1
           /\ response.status = 200
           /\ second.response.status = 200

\* the part of C25 that holds: the table never has two records of the
\* hash, and a call that begins after the other has stored its record
\* answers 'Transaction already processed'
C25_NoDuplicate ==
    /\ Cardinality({row \in db : row.xrplTxHash = tx.hash.s}) <= 1
    /\ (second.pc = "responded" /\ second.response.status = 500
          /\ second.response.error = "Validation error")
         => \E row \in db : row.xrplTxHash = tx.hash.s

(***************************************************************************)
(* Only HCT payments enter the pipeline                                    *)
(***************************************************************************)

\* a payment of the configured token
HctPayment(t) ==
    /\ t.TransactionType = "Payment"
    /\ t.Amount.type = "object"
    /\ t.Amount.currency = HCT
    /\ t.Amount.issuer = Issuer

Validated(row, xmlString, msgType) ==
    [row EXCEPT !.validationStatus =
                   IF validateXML(xmlString, msgType).isValid THEN "valid" ELSE "invalid",
                !.validationErrors = validateXML(xmlString, msgType).errors]

\* C27: after any sequence of process and revalidate operations every
\* stored Transaction is 'valid' or 'invalid', never 'pending', and 'valid'
\* only with no validation errors; each write of a row stores the outcome
\* of the validation just made of its XML (isValid gives 'valid', anything
\* else 'invalid'); revalidateTransaction changes only validationStatus and
\* validationErrors of the addressed row, and nothing when it answers 404
\* or 400.
C27_StatusConsistent ==
    /\ [](\A row \in db :
            /\ row.validationStatus \in {"valid", "invalid"}
            /\ row.validationStatus = "valid" => row.validationErrors = <<>>)
    /\ [][/\ (pc = "validated" /\ db' # db) =>
               \E row \in db' \ db :
                  /\ db' = db \cup {row}
                  /\ row.iso20022Xml = xml
                  /\ row = Validated(row, xml, SelectedType(messageType))
          /\ (pc = "responded" /\ pc' = "responded" /\ response' # response) =>
               \/ /\ response'.status = 200
                  /\ \E row \in db :
                        /\ response'.transaction =
                             Validated(row, row.iso20022Xml, SelectedType(messageType'))
                        /\ db' = (db \ {row}) \cup {response'.transaction}
               \/ /\ response'.status \in {404, 400}
                  /\ db' = db]_vars

\* a stored row that was valid has been revalidated as another message
\* type and is now invalid, with the errors of that validation
C27_Witness ==
    /\ pc = "responded"
    /\ response.status = 200
    /\ \E row \in db :
          /\ response.transaction = row
          /\ row.validationStatus = "invalid"
          /\ row.validationErrors # <<>>
          /\ validateXML(row.iso20022Xml, Pacs008).isValid
          /\ messageType # <<>>

(***************************************************************************)
(* Revocation of API keys                                                  *)
(***************************************************************************)

\* the keys the store has ever held
AllKeys == {DefaultApiKey} \cup {GeneratedKeys[n] : n \in 1..MaxIssued}

\* the key has been in the store and is in it no more: keys leave the
\* store by revokeApiKey only
Revoked(k) ==
    /\ k = DefaultApiKey \/ \E n \in 1..issued : GeneratedKeys[n] = k
    /\ validateApiKey(apiKeys, KeyString(k)) = 0

\* the stored key validateApiKey returns for the key, if any
MatchOf(store, k) ==
    IF validateApiKey(store, KeyString(k)) = 0
    THEN [found |-> FALSE]
    ELSE [found |-> TRUE,
          id |-> store[validateApiKey(store, KeyString(k))].id,
          permissions |-> store[validateApiKey(store, KeyString(k))].permissions]

\* C28: once revokeApiKey(keyId) has answered success the revoked key is
\* rejected by validateApiKey in every later request and no later operation
\* re-admits it; all other keys keep validating as before; revoking an
\* unknown keyId answers 404 and leaves the key store unchanged.
C28_RevocationFinal ==
    [][/\ \A k \in AllKeys : Revoked(k) => Revoked(k)'
       /\ (pc = "auth" /\ req.key.t = "string" /\ req.key.s \in AllKeys
             /\ Revoked(req.key.s))
            => (response'.status = 401 /\ pc' # "handler")
       /\ (pc = "idle" /\ response' # response /\ "keyId" \in DOMAIN response'
             /\ "apiKey" \notin DOMAIN response')
            => IF \E i \in DOMAIN apiKeys : apiKeys[i].id = response'.keyId
               THEN /\ response'.status = 200
                    /\ response'.message = "API key revoked successfully"
                    /\ \A i \in DOMAIN apiKeys' : apiKeys'[i].id # response'.keyId
                    /\ \A k \in AllKeys :
                          \/ MatchOf(apiKeys, k) = MatchOf(apiKeys', k)
                          \/ /\ MatchOf(apiKeys, k).found
                             /\ MatchOf(apiKeys, k).id = response'.keyId
                             /\ Revoked(k)'
               ELSE /\ response'.status = 404
                    /\ response'.error = "API key not found"
                    /\ apiKeys' = apiKeys]_vars

\* the default key and the first generated key have been revoked, a key
\* generated later is in the store, and a request with the default key has
\* been answered 401
C28_Witness ==
    /\ pc = "idle"
    /\ req.key = KeyString(DefaultApiKey)
    /\ response = [status |-> 401, error |-> "Invalid API key"]
    /\ Revoked(DefaultApiKey)
    /\ Revoked(GeneratedKeys[1])
    /\ MatchOf(apiKeys, GeneratedKeys[MaxIssued]).found

(***************************************************************************)
(* A client without a key                                                  *)
(***************************************************************************)

\* C29: a client that holds no valid API key cannot, by any sequence of
\* HTTP requests, get a request admitted to a route guarded by
\* authenticateApiKey(['write']), nor list or revoke existing keys: a
\* request that carries no key is never answered with the list of the
\* keys, with a successful revocation, or with a new key that the guard
\* of the write routes admits.
C29_KeylessShutOut ==
    (pc = "idle" /\ req.key = NoKey) =>
       /\ "apiKeys" \notin DOMAIN response
       /\ ~("message" \in DOMAIN response
              /\ response.message = "API key revoked successfully")
       /\ ~("apiKey" \in DOMAIN response
              /\ authenticateApiKey(apiKeys, <<"write">>,
                                    KeyString(response.apiKey)).status = 0)

\* the part of C29 that holds: the guard of the write routes itself passes
\* no request that carries no key or a key that is not in the store
C29_GuardShutsKeyless ==
    (pc = "handler" /\ Includes(req.required, "write")) =>
       /\ req.key.t = "string"
       /\ validateApiKey(apiKeys, req.key) # 0

(***************************************************************************)
(* The scan of the scheduler                                               *)
(***************************************************************************)

\* the HCT transactions a finished scan was given
ScannedHct ==
    {t \in {ScanLedger[i] : i \in DOMAIN ScanLedger} :
       /\ isHCTTransaction(t)
       /\ \E a \in DOMAIN scan.monitored :
             t.Account = Some(scan.monitored[a]) \/ t.Destination = Some(scan.monitored[a])}

\* C30: in one run of scanForNewTransactions every HCT transaction returned
\* for a monitored address that has no stored record is handed to
\* processXRPLTransaction exactly once, and a transaction that already has
\* a record is never handed over.
C30_HandedExactlyOnce ==
    scan.at = "done" =>
       \A t \in ScannedHct :
          Occurrences(scan.handed, t.hash.s) =
             IF \E row \in scan.before : row.xrplTxHash = t.hash.s THEN 0 ELSE 1

\* the part of C30 that holds: a transaction is handed over only while it
\* has no record, a call of processXRPLTransaction that stores nothing
\* leaves the scan running at the next transaction, and a finished scan has
\* handed over every HCT transaction that had no record
C30_ScanGoesOn ==
    /\ [](scan.at = "done" =>
            \A t \in ScannedHct :
               (~ \E row \in scan.before : row.xrplTxHash = t.hash.s)
                  => Occurrences(scan.handed, t.hash.s) >= 1)
    /\ [][scan.at = "transaction" /\ scan'.handed # scan.handed =>
             /\ ~ \E row \in db : row.xrplTxHash = scan'.handed[Len(scan'.handed)]
             /\ scan'.at = "transaction"
             /\ scan'.index = scan.index + 1]_vars

=============================================================================
